---------------------------- MODULE Spec2Model ----------------------------
(***************************************************************************)
(* Civ-Diplomacy: the civilization economy, the trade clearer, the combat  *)
(* resolver and the turn loop of src/civ.py, src/planet.py, src/model.py.  *)
(*                                                                         *)
(* Numbers.  The program computes with Python floats.  Every real-valued   *)
(* quantity (tech, culture, military, friendliness, population, resource   *)
(* stocks, demand, surplus, deficit, pressures) is kept here as a          *)
(* fixed-point integer counting hundredths: 1.0 is 100.  Products and      *)
(* quotients are rounded down to the next hundredth, except the ratios     *)
(* that feed the war odds (the two pressures and the culture difference):  *)
(* those are rounded up, so that a positive ratio stays positive and a war *)
(* the program can draw is a war the model can draw.                       *)
(*                                                                         *)
(* Objects.  A Civ or Planet object is named by its creation index (its    *)
(* position in Model.civ_ids / Model.list_planets); its id is a field.     *)
(* Every lookup the code does by id goes through that field.               *)
(***************************************************************************)
EXTENDS Integers, Sequences, FiniteSets, TLC

VARIABLES
    civ,          \* civ[c]: the fields of Civ object c
    planet,       \* planet[p]: the fields of Planet object p
    list_civs,    \* Model.list_civs: the roster, eliminated civs are removed
    pc,           \* where the caller stands (run_simulation's position, or the last direct call)
    t,            \* run_simulation's turn counter
    end_type,     \* Model.end_type
    turn,         \* interact_civs' locals for the turn in progress
    calls,        \* number of direct calls made so far (direct-call specification)
    max_turns,    \* Model.max_turns
    winner_id,    \* Model.winner_id (NoneObj: the attribute does not exist)
    yielded,      \* what run_simulation has yielded so far: the turn number of a
                  \* snapshot, MessageYield for a message
    id_iters,     \* the class attributes Civ.id_iter and Planet.id_iter
    friendliness_default   \* the default value of Civ.__init__'s friendliness parameter

vars == <<civ, planet, list_civs, pc, t, end_type, turn, calls, max_turns, winner_id, yielded,
          id_iters, friendliness_default>>

-----------------------------------------------------------------------------
(* Fixed point and small helpers *)

ONE == 10 * 10                       \* 1.0 in hundredths
NoneObj == 0 - 1                     \* Python's None where an object is expected
Res == {"energy", "food", "minerals"}
ZeroRes == [k \in Res |-> 0]

Max2(a, b) == IF a >= b THEN a ELSE b
Min2(a, b) == IF a <= b THEN a ELSE b
Abs(a) == IF a < 0 THEN 0 - a ELSE a
SumRes(f) == f["energy"] + f["food"] + f["minerals"]
CeilDiv(a, b) == (a + b - 1) \div b   \* a >= 0, b > 0
Trunc(x) == IF x >= 0 THEN x \div ONE ELSE 0 - ((0 - x) \div ONE)   \* int(x), x in hundredths

RECURSIVE SumDom(_, _)
SumDom(f, D) == IF D = {} THEN 0
                ELSE LET k == CHOOSE x \in D : TRUE IN f[k] + SumDom(f, D \ {k})

\* Counter(a).update(b): adds b's entries to a (b may lack keys)
CounterUpdate(a, b) == [k \in Res |-> IF k \in DOMAIN b THEN a[k] + b[k] ELSE a[k]]
\* Counter(a).subtract(b): subtracts b's entries from a, negative results are kept
CounterSubtract(a, b) == [k \in Res |-> IF k \in DOMAIN b THEN a[k] - b[k] ELSE a[k]]
\* -Counter: only the entries that were negative survive, with their sign flipped
CounterNeg(a) == [k \in {x \in DOMAIN a : a[x] < 0} |-> 0 - a[k]]

\* natural logarithm in hundredths of an argument in hundredths (x > 0):
\* x = m * 2^k with 1 <= m < 2, ln x = k ln 2 + 2 atanh((m-1)/(m+1))
LN2 == 6931                           \* ln 2 in units of 1/10000
RECURSIVE LnNorm(_, _)
LnNorm(x, k) == IF x >= 2 * ONE THEN LnNorm(x \div 2, k + 1)
                ELSE IF x < ONE THEN LnNorm(x * 2, k - 1)
                ELSE LET y  == ((x - ONE) * 10000) \div (x + ONE)
                         y2 == (y * y) \div 10000
                         y3 == (y2 * y) \div 10000
                         y5 == (y3 * y2) \div 10000
                     IN  k * LN2 + 2 * (y + (y3 \div 3) + (y5 \div 5))
Ln(x) == LnNorm(x, 0) \div ONE

-----------------------------------------------------------------------------
(* Constants of src/civ.py, src/planet.py and src/model.py.  Reals are in  *)
(* hundredths; the three culture rates, too small for that, are in         *)
(* ten-thousandths.                                                        *)

MAX_CULTURE == 80000                 \* 800 culture
DESPERATION_POINT == 60              \* 0.6
beta_P == 50                         \* 0.5
beta_E == 30                         \* 0.3
delta_P == 5                         \* 0.0005, in 1/10000
delta_T == 10                        \* 0.001,  in 1/10000
delta_R == 5                         \* 0.0005, in 1/10000
sigma_P == 10                        \* 0.1
sigma_T == 20                        \* 0.2
sigma_M == 30                        \* 0.3
theta == 15                          \* 0.15
beta_f == 10                         \* 0.1
e_c == 100                           \* 1.0
f_c == 100                           \* 1.0
m_c == 100                           \* 1.0
alpha_T == 10                        \* 0.1
alpha_M == 10                        \* 0.1
epsilon_R == 50                      \* 0.5
epsilon_P == 50                      \* 0.5
MIN_PLANETS == 3
WAR_WIN_BOOST == 15                  \* 0.15
COOPERATION_BOOST == 10              \* 0.1
WAR_PENALTY == 10                    \* 0.1
TRADE_TECH_BOOST == 50               \* 0.5
PLANET_CONQUEST_CHANCE_ON_WIN == 100 \* 1.0
MAX_TURNS_SIM == 200
W1_FRIENDLINESS == 10                \* 0.1
W2_POP_PRESSURE == 30                \* 0.3
W3_RES_PRESSURE == 20                \* 0.2
W4_CULT_DIFF == 20                   \* 0.2
Relations == {"Neutral", "Peace", "War"}

CivObjs == 0 .. (MIN_PLANETS - 1)    \* Model.civ_ids: one Civ object per planet
PlanetObjs == 0 .. (MIN_PLANETS - 1) \* Model.list_planets

-----------------------------------------------------------------------------
(* The object graph.  A world W is the record [civ, planet, list_civs]; the *)
(* methods below are functions from worlds to worlds.                       *)

World == [civ |-> civ, planet |-> planet, list_civs |-> list_civs]

get_id(W, c) == W.civ[c].civ_id

\* Civ.__init__
NewCiv(num_civs, id_iter, tech, culture, military, friendliness, resources) ==
    [ civ_id |-> id_iter % num_civs,
      num_planets |-> 0,
      alive |-> TRUE,
      has_won_culture_victory |-> FALSE,
      planets |-> << >>,             \* dict planet id -> Planet, in insertion order
      friendliness |-> Max2(0, friendliness),
      culture |-> Max2(0, culture),
      military |-> Max2(0, military),
      tech |-> Max2(0, tech),
      resources |-> CounterUpdate(ZeroRes, resources),
      demand |-> ZeroRes,            \* {} in the code, read with .get(key, 0)
      surplus |-> ZeroRes,           \* {} in the code, read with .get(key, 0)
      deficit |-> ZeroRes,           \* {} in the code, read with .get(key, 0)
      population |-> ONE,
      population_cap |-> 0,
      desperation |-> 0,
      is_desparate |-> FALSE,
      resource_pressure_component |-> 0,
      traded_resources |-> [i \in 0 .. (num_civs - 1) |-> ZeroRes],
      relations |-> [i \in 0 .. (num_civs - 1) |-> "Neutral"],
      victories |-> 0,
      population_pressure |-> 0,
      war_initiations_this_turn |-> 0 ]

\* Planet.__init__
NewPlanet(num_planets, id_iter, pos_x, pos_y, resources, population_cap) ==
    [ id |-> id_iter % num_planets,
      civ |-> NoneObj,
      pos_x |-> pos_x,
      pos_y |-> pos_y,
      resources |-> resources,
      population_cap |-> population_cap ]

\* the dict Civ.planets: a sequence of entries [id, obj] in insertion order
DictHas(d, key) == \E i \in 1 .. Len(d) : d[i].id = key
DictDel(d, key) == SelectSeq(d, LAMBDA e : e.id # key)
DictSet(d, key, obj) ==
    IF DictHas(d, key)
    THEN [i \in 1 .. Len(d) |-> IF d[i].id = key THEN [id |-> key, obj |-> obj] ELSE d[i]]
    ELSE Append(d, [id |-> key, obj |-> obj])
get_planet_ids(W, c) == [i \in 1 .. Len(W.civ[c].planets) |-> W.civ[c].planets[i].id]

\* Planet.remove_civ
remove_civ(W, p) ==
    LET P == W.planet[p]
        c == P.civ
    IN  IF c = NoneObj THEN W
        ELSE
        LET C == W.civ[c]
            population_share == C.population \div Max2(C.num_planets, 1)
            to_remove0 == IF C.num_planets > 0
                          THEN Min2(P.population_cap, population_share) ELSE 0
            population_to_remove == Min2(to_remove0, C.population)
        IN  IF ~DictHas(C.planets, P.id) THEN W      \* del raises KeyError: nothing written yet
            ELSE [W EXCEPT
                    !.civ[c].planets = DictDel(C.planets, P.id),
                    !.civ[c].num_planets = C.num_planets - 1,
                    !.civ[c].population_cap = C.population_cap - P.population_cap,
                    !.civ[c].population = C.population - population_to_remove,
                    !.civ[c].resources = CounterSubtract(C.resources, P.resources),
                    !.planet[p].civ = NoneObj]

\* assign_civ without the removal of the previous owner
assign_civ_keeps_owner(W, p, new_owner_civ) ==
    IF new_owner_civ = NoneObj THEN [W EXCEPT !.planet[p].civ = NoneObj]
    ELSE LET N == W.civ[new_owner_civ]
             P == W.planet[p]
         IN [W EXCEPT
               !.planet[p].civ = new_owner_civ,
               !.civ[new_owner_civ].planets = DictSet(N.planets, P.id, p),
               !.civ[new_owner_civ].resources = CounterUpdate(N.resources, P.resources),
               !.civ[new_owner_civ].population_cap = N.population_cap + P.population_cap,
               !.civ[new_owner_civ].num_planets = N.num_planets + 1]

\* Planet.assign_civ
assign_civ(W, p, new_owner_civ) ==
    LET W1 == IF W.planet[p].civ # NoneObj THEN remove_civ(W, p) ELSE W
        P  == W1.planet[p]
    IN  IF W.planet[p].civ # NoneObj /\ W1.planet[p].civ # NoneObj THEN W   \* remove_civ raised
        ELSE IF new_owner_civ = NoneObj THEN [W1 EXCEPT !.planet[p].civ = NoneObj]
        ELSE LET N == W1.civ[new_owner_civ]
             IN [W1 EXCEPT
                   !.planet[p].civ = new_owner_civ,
                   !.civ[new_owner_civ].planets = DictSet(N.planets, P.id, p),
                   !.civ[new_owner_civ].resources = CounterUpdate(N.resources, P.resources),
                   !.civ[new_owner_civ].population_cap = N.population_cap + P.population_cap,
                   !.civ[new_owner_civ].num_planets = N.num_planets + 1]

\* a change_relations that writes the caller's side only
change_relations_one_way(W, c1, c2, new_relation) ==
    IF new_relation \notin Relations THEN W
    ELSE [W EXCEPT !.civ[c1].relations[get_id(W, c2)] = new_relation]

\* Civ.change_relations; a tag outside Relations raises ValueError before any write
change_relations(W, c1, c2, new_relation) ==
    IF new_relation \notin Relations THEN W
    ELSE LET W1 == [W EXCEPT !.civ[c1].relations[get_id(W, c2)] = new_relation]
         IN  [W1 EXCEPT !.civ[c2].relations[get_id(W, c1)] = new_relation]

\* Civ.break_trade
break_trade(W, c1, c2) ==
    LET S == W.civ[c1]
        ledger == S.traded_resources[get_id(W, c2)]
    IN  IF ledger = ZeroRes THEN W
        ELSE
        LET W1 == [W EXCEPT !.civ[c1].resources = CounterSubtract(S.resources, ledger)]
            W2 == [W1 EXCEPT !.civ[c2].resources =
                       CounterUpdate(W1.civ[c2].resources,
                                     W1.civ[c1].traded_resources[get_id(W, c1)])]
            W3 == [W2 EXCEPT !.civ[c1].traded_resources[get_id(W, c2)] = ZeroRes]
        IN  [W3 EXCEPT !.civ[c2].traded_resources[get_id(W, c1)] = ZeroRes]

\* Civ.kill_civ.  The loop over self.planets.values() calls remove_civ, which
\* deletes from the dict being iterated: Python raises RuntimeError at the
\* next step of the loop, and the rest of kill_civ is not executed.
RECURSIVE KillLoop(_, _, _, _)
KillLoop(W, c, snapshot, i) ==
    IF i > Len(snapshot) THEN [w |-> W, raised |-> FALSE]
    ELSE LET W1 == remove_civ(W, snapshot[i].obj)
         IN  IF Len(W1.civ[c].planets) # Len(W.civ[c].planets)
             THEN [w |-> W1, raised |-> TRUE]
             ELSE KillLoop(W1, c, snapshot, i + 1)

RECURSIVE BreakAll(_, _, _, _)
BreakAll(W, c, civ_list, i) ==
    IF i > Len(civ_list) THEN W
    ELSE BreakAll(IF civ_list[i] # c THEN break_trade(W, c, civ_list[i]) ELSE W,
                  c, civ_list, i + 1)

kill_civ(W, c, civ_list) ==
    LET W0 == [W EXCEPT !.civ[c].alive = FALSE]
        L  == KillLoop(W0, c, W0.civ[c].planets, 1)
    IN  IF L.raised THEN L.w
        ELSE LET W1 == BreakAll(L.w, c, civ_list, 1)
             IN  [W1 EXCEPT !.civ[c].planets = << >>,
                            !.civ[c].num_planets = 0,
                            !.civ[c].population = 0]

\* Civ.check_if_dead: the world afterwards, and the value returned
check_if_dead(W, c, civ_list) ==
    IF W.civ[c].num_planets = 0
    THEN [w |-> kill_civ(W, c, civ_list), dead |-> TRUE]
    ELSE [w |-> W, dead |-> FALSE]

\* list.remove(x): drops the first occurrence (ValueError, nothing changed, if absent)
RECURSIVE ListRemove(_, _)
ListRemove(l, x) == IF l = << >> THEN << >>
                    ELSE IF Head(l) = x THEN Tail(l)
                    ELSE <<Head(l)>> \o ListRemove(Tail(l), x)

-----------------------------------------------------------------------------
(* Economy Update: Civ.update_attributes *)

\* population * min(1.0, food / max(population, 1e-3))
PopulationGrowth(population, food) ==
    IF population >= 1
    THEN (IF food >= population THEN population ELSE food)
    ELSE (IF food >= 1 THEN population ELSE 10 * population * food)

\* beta_E * (max(energy, 1e-3) / population), population > 0
EnergyTech(energy, population) ==
    (beta_E * Max2(10 * energy, 1)) \div (10 * population)

\* the attributes written before the tech line
UpdateGrowth(C) ==
    LET population == C.population + PopulationGrowth(C.population, C.resources["food"])
    IN  [C EXCEPT
           !.population = population,
           !.culture = C.culture + ((delta_P * population + delta_T * C.tech
                                     + delta_R * SumRes(C.resources)) \div 10000),
           !.military = (sigma_P * population + sigma_T * C.tech
                         + sigma_M * C.resources["minerals"]) \div ONE]

\* a friendliness update whose victory decay has no floor at 0
FriendlinessUpdate_no_floor(friendliness, victories, culture) ==
    Min2(ONE, (friendliness - theta * victories) + ((beta_f * culture) \div MAX_CULTURE))

\* friendliness after the victory decay and the cultural pacification
FriendlinessUpdate(friendliness, victories, culture) ==
    LET friendliness_after_victories == Max2(0, friendliness - theta * victories)
        cultural_pacification == (beta_f * culture) \div MAX_CULTURE
    IN  Min2(ONE, friendliness_after_victories + cultural_pacification)

Demand(C) ==
    [k \in Res |->
       IF k = "energy" THEN (e_c * C.population + alpha_T * C.tech + alpha_M * C.military) \div ONE
       ELSE IF k = "food" THEN (f_c * C.population) \div ONE
       ELSE (m_c * C.military) \div ONE]

PopulationPressure(C) ==
    IF C.population_cap <= 0
    THEN (IF C.population > 0 THEN C.population ELSE 0)
    ELSE IF C.population <= C.population_cap THEN 0
    ELSE CeilDiv((C.population - C.population_cap) * ONE, C.population_cap)

\* update_attributes on the fields of one civ.  When the population it has
\* just written is 0 the tech line raises ZeroDivisionError and the writes so
\* far stay; when it is negative np.log gives nan and the numbers after the
\* tech line are not followed.
update_civ(C) ==
    LET C1 == UpdateGrowth(C)
    IN  IF C1.population <= 0 THEN C1
        ELSE
        LET tech == C1.tech + ((beta_P * Ln(C1.population)) \div ONE)
                            + EnergyTech(C1.resources["energy"], C1.population)
            C2 == [C1 EXCEPT
                     !.tech = tech,
                     !.friendliness = FriendlinessUpdate(C1.friendliness, C1.victories, C1.culture)]
            demand == Demand(C2)
            flux == CounterSubtract(C2.resources, demand)
            surplus == [k \in Res |-> IF 0 < flux[k] THEN flux[k] ELSE 0]
            deficit == [k \in Res |-> IF flux[k] < 0 THEN Abs(flux[k]) ELSE 0]
            population_pressure == PopulationPressure(C2)
            sum_demand_val == SumRes(demand)
            sum_deficit_val == SumRes(deficit)
            deficit_pressure == IF sum_demand_val > 0
                                THEN CeilDiv(sum_deficit_val * ONE, sum_demand_val) ELSE 0
            desperation == (epsilon_R * population_pressure + epsilon_P * deficit_pressure) \div ONE
        IN  [C2 EXCEPT
               !.demand = demand,
               !.surplus = surplus,
               !.deficit = deficit,
               !.population_pressure = population_pressure,
               !.resource_pressure_component = deficit_pressure,
               !.desperation = desperation,
               !.is_desparate = (DESPERATION_POINT < desperation),
               !.has_won_culture_victory =
                   (C2.has_won_culture_victory \/ C2.culture >= MAX_CULTURE)]

update_attributes(W, c) == [W EXCEPT !.civ[c] = update_civ(W.civ[c])]

-----------------------------------------------------------------------------
(* Model.civs_cooperate, Model.civs_trade, Model.civs_war *)

civs_cooperate(W, c1, c2) ==
    LET W1 == change_relations(W, c1, c2, "Peace")
        W2 == [W1 EXCEPT !.civ[c1].tech = @ + COOPERATION_BOOST]
        W3 == [W2 EXCEPT !.civ[c2].tech = @ + COOPERATION_BOOST]
        W4 == [W3 EXCEPT !.civ[c1].culture = @ + COOPERATION_BOOST]
    IN  [W4 EXCEPT !.civ[c2].culture = @ + COOPERATION_BOOST]

flow_from_civ2_to_civ1(W, c1, c2) ==
    [k \in Res |-> Min2(W.civ[c2].surplus[k], W.civ[c1].deficit[k])]
flow_from_civ1_to_civ2(W, c1, c2) ==
    [k \in Res |-> Min2(W.civ[c1].surplus[k], W.civ[c2].deficit[k])]
\* the net change of civ1's stocks
amt_to_trade(W, c1, c2) ==
    CounterSubtract(flow_from_civ2_to_civ1(W, c1, c2), flow_from_civ1_to_civ2(W, c1, c2))
value_civ2_gave_to_civ1(amt) == SumDom(amt, {k \in Res : amt[k] > 0})

\* the ledger entry civs_trade stores on civ2's side: -amt_to_trade
Civ2Ledger(amt) == CounterNeg(amt)

\* which side civs_trade gives TRADE_TECH_BOOST to
TradeBoostCiv2(amt) == value_civ2_gave_to_civ1(amt) = 0

\* civs_trade in which civ2 pays what it gives but is not credited what it gets
civs_trade_civ2_not_credited(W, c1, c2) ==
    LET amt == amt_to_trade(W, c1, c2)
        civ1_new_resources == CounterUpdate(W.civ[c1].resources, amt)
        civ2_new_resources == CounterSubtract(W.civ[c2].resources,
                                              flow_from_civ2_to_civ1(W, c1, c2))
        W1 == [W EXCEPT !.civ[c1].resources = civ1_new_resources]
        W2 == [W1 EXCEPT !.civ[c2].resources = civ2_new_resources]
        W3 == [W2 EXCEPT !.civ[c1].traded_resources[get_id(W, c2)] = amt]
        W4 == [W3 EXCEPT !.civ[c2].traded_resources[get_id(W, c1)] = Civ2Ledger(amt)]
    IN  IF TradeBoostCiv2(amt)
        THEN [W4 EXCEPT !.civ[c2].tech = @ + TRADE_TECH_BOOST]
        ELSE W4

civs_trade(W, c1, c2) ==
    LET amt == amt_to_trade(W, c1, c2)
        civ1_new_resources == CounterUpdate(W.civ[c1].resources, amt)
        civ2_new_resources == CounterSubtract(W.civ[c2].resources, amt)
        W1 == [W EXCEPT !.civ[c1].resources = civ1_new_resources]
        W2 == [W1 EXCEPT !.civ[c2].resources = civ2_new_resources]
        W3 == [W2 EXCEPT !.civ[c1].traded_resources[get_id(W, c2)] = amt]
        W4 == [W3 EXCEPT !.civ[c2].traded_resources[get_id(W, c1)] = Civ2Ledger(amt)]
    IN  IF TradeBoostCiv2(amt)
        THEN [W4 EXCEPT !.civ[c2].tech = @ + TRADE_TECH_BOOST]
        ELSE W4

\* military * (1 + 0.1 * tech), in units of 1/10000
CombatPower(C) == C.military * ((10 * ONE + C.tech) \div 10)

\* the results random() < attacker_win_chance allows, the draw being in [0, 1)
WarOutcomes(W, attacker, defender) ==
    LET attacker_power == CombatPower(W.civ[attacker])
        defender_power == CombatPower(W.civ[defender])
        total_combat_power == attacker_power + defender_power
        SameSign(a, b) == (a > 0 /\ b > 0) \/ (a < 0 /\ b < 0)
    IN  IF total_combat_power = 0 THEN {"stalemate"}
        ELSE {o \in {"attacker", "defender"} :
                \/ o = "attacker" /\ SameSign(attacker_power, total_combat_power)   \* chance > 0
                \/ o = "defender" /\ SameSign(defender_power, total_combat_power)}  \* chance < 1

\* what civs_war does before it looks at the combat powers
DeclareWar(W, attacker, defender) ==
    change_relations(break_trade(W, attacker, defender), attacker, defender, "War")

\* the conquest without the elimination check of the defender
Conquer_unchecked(W, attacker, defender, targeted_planet) ==
    IF PLANET_CONQUEST_CHANCE_ON_WIN >= ONE
    THEN assign_civ(W, targeted_planet, attacker) ELSE W

\* the conquest as it would be if the defender lost the targeted planet and
\* the attacker did not get it
Conquer_planet_lost(W, attacker, defender, targeted_planet) ==
    LET W1 == IF PLANET_CONQUEST_CHANCE_ON_WIN >= ONE
              THEN remove_civ(W, targeted_planet) ELSE W
        D  == check_if_dead(W1, defender, W1.list_civs)
    IN  IF D.dead THEN [D.w EXCEPT !.list_civs = ListRemove(D.w.list_civs, defender)]
        ELSE D.w

\* the attacker takes the targeted planet and the defender is checked for elimination
Conquer(W, attacker, defender, targeted_planet) ==
    LET W1 == IF PLANET_CONQUEST_CHANCE_ON_WIN >= ONE    \* random() < 1.0: every draw
              THEN assign_civ(W, targeted_planet, attacker) ELSE W
        D  == check_if_dead(W1, defender, W1.list_civs)
    IN  IF D.dead THEN [D.w EXCEPT !.list_civs = ListRemove(D.w.list_civs, defender)]
        ELSE D.w

AttackerWins(W, attacker, defender, targeted_planet) ==
    LET W1 == [W EXCEPT !.civ[attacker].military = @ + WAR_WIN_BOOST,
                        !.civ[attacker].tech = @ + WAR_WIN_BOOST,
                        !.civ[attacker].victories = @ + 1]
    IN  IF targeted_planet # NoneObj /\ W1.planet[targeted_planet].civ = defender
        THEN Conquer(W1, attacker, defender, targeted_planet)
        ELSE W1

\* the defender's win without the floor at 0 of the attacker's penalty
DefenderWinsNoFloor(W, attacker, defender) ==
    LET W1 == [W EXCEPT !.civ[defender].military = @ + WAR_WIN_BOOST,
                        !.civ[defender].tech = @ + WAR_WIN_BOOST,
                        !.civ[defender].victories = @ + 1]
    IN  [W1 EXCEPT !.civ[attacker].tech = W1.civ[attacker].tech - WAR_PENALTY,
                   !.civ[attacker].culture = W1.civ[attacker].culture - WAR_PENALTY]

DefenderWins(W, attacker, defender) ==
    LET W1 == [W EXCEPT !.civ[defender].military = @ + WAR_WIN_BOOST,
                        !.civ[defender].tech = @ + WAR_WIN_BOOST,
                        !.civ[defender].victories = @ + 1]
    IN  [W1 EXCEPT !.civ[attacker].tech = Max2(0, W1.civ[attacker].tech - WAR_PENALTY),
                   !.civ[attacker].culture = Max2(0, W1.civ[attacker].culture - WAR_PENALTY)]

\* outcome is one of WarOutcomes(W, attacker, defender)
civs_war(W, attacker, defender, targeted_planet, outcome) ==
    LET W1 == DeclareWar(W, attacker, defender)
    IN  IF outcome = "stalemate" THEN W1
        ELSE IF outcome = "attacker" THEN AttackerWins(W1, attacker, defender, targeted_planet)
        ELSE DefenderWins(W1, attacker, defender)

-----------------------------------------------------------------------------
(* Model.__init__ and Model.assign_planets *)

RECURSIVE AssignPlanets(_, _)
AssignPlanets(W, i) ==
    IF i >= MIN_PLANETS THEN W
    ELSE AssignPlanets(assign_civ(W, i, W.list_civs[i + 1]), i + 1)

\* pos, res, cap: what assign_planets and Planet.__init__ draw for each planet;
\* tech, military, friendliness, resources: the arguments each Civ is constructed with
NewModel(pos, res, cap, tech, military, friendliness, resources) ==
    AssignPlanets(
      [ civ |-> [c \in CivObjs |->
                   NewCiv(MIN_PLANETS, c, tech[c], 0, military[c], friendliness[c], resources[c])],
        planet |-> [p \in PlanetObjs |->
                   NewPlanet(MIN_PLANETS, p, pos[p][1], pos[p][2], res[p], cap[p])],
        list_civs |-> [i \in 1 .. MIN_PLANETS |-> i - 1] ], 0)

Stock(e, f, m) == [k \in Res |-> IF k = "energy" THEN e ELSE IF k = "food" THEN f ELSE m]

-----------------------------------------------------------------------------
(* Direct calls: the objects are built as Model.__init__ builds them, with  *)
(* constructor arguments from small sets, and then the methods are called   *)
(* in any order with any arguments, MaxCalls times at most.                 *)

MaxCalls == 4

ApiCivs == {0, 1}                    \* the civs the calls are made on
ApiPlanets == {0, 1}
ApiTech == {0, 400 * ONE, 1500 * ONE}
ApiPos == [p \in PlanetObjs |-> <<p, 0>>]
ApiRes == [p \in PlanetObjs |->
             IF p = 0 THEN Stock(500 * ONE, 100 * ONE, 100 * ONE)
             ELSE Stock(100 * ONE, 100 * ONE, 500 * ONE)]
ApiCap == [p \in PlanetObjs |-> 1000 * ONE]

SetWorld(W) == civ' = W.civ /\ planet' = W.planet /\ list_civs' = W.list_civs

InitApi ==
    /\ \E tech \in [CivObjs -> ApiTech] :
         /\ tech[2] = 0
         /\ LET W == NewModel(ApiPos, ApiRes, ApiCap, tech, [c \in CivObjs |-> 0],
                              [c \in CivObjs |-> ONE \div 2], [c \in CivObjs |-> ZeroRes])
            IN  civ = W.civ /\ planet = W.planet /\ list_civs = W.list_civs
    /\ pc = [op |-> "init"]
    /\ t = 0
    /\ end_type = ""
    /\ turn = << >>
    /\ calls = 0
    /\ max_turns = MAX_TURNS_SIM
    /\ winner_id = NoneObj
    /\ yielded = << >>
    /\ id_iters = [Civ |-> MIN_PLANETS, Planet |-> MIN_PLANETS]
    /\ friendliness_default = ONE \div 2

Called(call) ==
    /\ calls < MaxCalls
    /\ calls' = calls + 1
    /\ pc' = call
    /\ UNCHANGED <<t, end_type, turn, max_turns, winner_id, id_iters, friendliness_default, yielded>>

ApiUpdate ==
    \E c \in ApiCivs :
       /\ Called([op |-> "update_attributes", c1 |-> c])
       /\ SetWorld(update_attributes(World, c))

ApiTrade ==
    \E c1 \in ApiCivs : \E c2 \in ApiCivs \ {c1} :
       /\ Called([op |-> "civs_trade", c1 |-> c1, c2 |-> c2,
                  before |-> [c \in CivObjs |-> civ[c].resources],
                  outstanding |-> (civ[c1].traded_resources[get_id(World, c2)] # ZeroRes
                                   \/ civ[c2].traded_resources[get_id(World, c1)] # ZeroRes)])
       /\ SetWorld(civs_trade(World, c1, c2))

ApiCooperate ==
    \E c1 \in ApiCivs : \E c2 \in ApiCivs \ {c1} :
       /\ Called([op |-> "civs_cooperate", c1 |-> c1, c2 |-> c2])
       /\ SetWorld(civs_cooperate(World, c1, c2))

ApiWar ==
    \E c1 \in ApiCivs : \E c2 \in ApiCivs \ {c1}, p \in ApiPlanets \cup {NoneObj} :
       \E outcome \in WarOutcomes(World, c1, c2) :
          /\ Called([op |-> "civs_war", c1 |-> c1, c2 |-> c2, p |-> p, outcome |-> outcome])
          /\ SetWorld(civs_war(World, c1, c2, p, outcome))

NextApi ==
    \/ ApiUpdate
    \/ ApiTrade
    \/ ApiCooperate
    \/ ApiWar

SpecApi == InitApi /\ [][NextApi]_vars

\* Direct calls of Civ.change_relations, with tags inside and outside the
\* list the method tests, next to the two methods of Model that call it.
RelationTags == Relations \cup {"peace", "Alliance"}

\* if not (new_relation in ["Neutral", "Peace", "War"]): raise ValueError(...)
change_relations_raises(new_relation) == new_relation \notin Relations

ApiChangeRelations ==
    \E c1 \in ApiCivs, c2 \in ApiCivs, new_relation \in RelationTags :
       /\ Called([op |-> "change_relations", c1 |-> c1, c2 |-> c2,
                  new_relation |-> new_relation,
                  raised |-> change_relations_raises(new_relation),
                  before |-> [c \in CivObjs |-> civ[c].relations]])
       /\ SetWorld(change_relations(World, c1, c2, new_relation))

NextRelations ==
    \/ ApiChangeRelations
    \/ ApiCooperate
    \/ ApiWar

SpecRelations == InitApi /\ [][NextRelations]_vars

-----------------------------------------------------------------------------
(* Direct calls of the ownership methods: assign_civ, remove_civ, civs_war  *)
(* and kill_civ in any order, on civs constructed with a military argument. *)

OwnMilitary == {0, 10 * ONE}

InitOwn ==
    /\ \E military \in [CivObjs -> OwnMilitary] :
         /\ military[2] = 0
         /\ LET W == NewModel(ApiPos, ApiRes, ApiCap, [c \in CivObjs |-> 0], military,
                              [c \in CivObjs |-> ONE \div 2], [c \in CivObjs |-> ZeroRes])
            IN  civ = W.civ /\ planet = W.planet /\ list_civs = W.list_civs
    /\ pc = [op |-> "init"]
    /\ t = 0
    /\ end_type = ""
    /\ turn = << >>
    /\ calls = 0
    /\ max_turns = MAX_TURNS_SIM
    /\ winner_id = NoneObj
    /\ yielded = << >>
    /\ id_iters = [Civ |-> MIN_PLANETS, Planet |-> MIN_PLANETS]
    /\ friendliness_default = ONE \div 2

OwnAssign ==
    \E p \in ApiPlanets, c \in ApiCivs :
       /\ Called([op |-> "assign_civ", c1 |-> c, p |-> p])
       /\ SetWorld(assign_civ(World, p, c))

OwnRemove ==
    \E p \in ApiPlanets :
       /\ Called([op |-> "remove_civ", p |-> p])
       /\ SetWorld(remove_civ(World, p))

OwnKill ==
    \E c \in ApiCivs :
       /\ Called([op |-> "kill_civ", c1 |-> c])
       /\ SetWorld(kill_civ(World, c, list_civs))

OwnWar ==
    \E c1 \in ApiCivs : \E c2 \in ApiCivs \ {c1}, p \in ApiPlanets \cup {NoneObj} :
       \E outcome \in WarOutcomes(World, c1, c2) :
          /\ Called([op |-> "civs_war", c1 |-> c1, c2 |-> c2, p |-> p, outcome |-> outcome])
          /\ SetWorld(civs_war(World, c1, c2, p, outcome))

NextOwn ==
    \/ OwnAssign
    \/ OwnRemove
    \/ OwnKill
    \/ OwnWar

SpecOwn == InitOwn /\ [][NextOwn]_vars

-----------------------------------------------------------------------------
(* Model.distances, Model.can_interact, Model.interact_civs *)

civ_ids == [i \in CivObjs |-> i]          \* Model.civ_ids: list index -> Civ object
list_planets == [i \in PlanetObjs |-> i]  \* Model.list_planets: list index -> Planet object

\* the square of Model.ranges[i][j]
RangeSquared(W, i, j) ==
    IF i = j THEN 0
    ELSE LET a == W.planet[list_planets[i]]
             b == W.planet[list_planets[j]]
         IN  (a.pos_x - b.pos_x) * (a.pos_x - b.pos_x)
               + (a.pos_y - b.pos_y) * (a.pos_y - b.pos_y)

\* ranges[p1.id][p2.id] < civ1.tech / 10 for some planet p1 of civ1 and p2 of civ2
can_interact(W, c1, c2) ==
    \E i \in 1 .. Len(W.civ[c1].planets) : \E j \in 1 .. Len(W.civ[c2].planets) :
       /\ W.civ[c1].tech > 0
       /\ RangeSquared(W, W.civ[c1].planets[i].id, W.civ[c2].planets[j].id) * 1000000
            < W.civ[c1].tech * W.civ[c1].tech

\* 0 if max(a, b) == 0 else abs(a - b) / max(a, b)
CultDiff(a, b) ==
    LET m == Max2(a, b)
    IN  IF m = 0 THEN 0
        ELSE IF m > 0 THEN CeilDiv(Abs(a - b) * ONE, m)
        ELSE 0 - ((Abs(a - b) * ONE) \div (0 - m))

reachable_civs(W, active_civs, actor) ==
    SelectSeq(active_civs, LAMBDA c : c # actor /\ can_interact(W, actor, c))

\* sorted(..., key = score, reverse = True): stable, highest score first
RECURSIVE InsertDesc(_, _)
InsertDesc(s, e) ==
    IF s = << >> THEN <<e>>
    ELSE IF Head(s).score >= e.score THEN <<Head(s)>> \o InsertDesc(Tail(s), e)
    ELSE <<e>> \o s
RECURSIVE SortedDesc(_)
SortedDesc(s) ==
    IF s = << >> THEN << >>
    ELSE InsertDesc(SortedDesc(SubSeq(s, 1, Len(s) - 1)), s[Len(s)])

\* the filter of trade_targets: np.any(np.where(0 < int(surplus) - int(deficit)))
\* is true when the difference is positive at an index other than 0, that is
\* for food or minerals
TradeWanted(W, actor, c) ==
    \E k \in {"food", "minerals"} :
       0 < Trunc(W.civ[c].surplus[k]) - Trunc(W.civ[actor].deficit[k])

trade_targets(W, coop_targets, actor) ==
    LET wanted == SelectSeq(coop_targets, LAMBDA c : TradeWanted(W, actor, c))
    IN  SortedDesc([i \in 1 .. Len(wanted) |->
                      [key |-> wanted[i],
                       score |-> ONE - CultDiff(W.civ[actor].culture, W.civ[wanted[i]].culture)
                                     + W.civ[wanted[i]].friendliness]])

\* the war odds of actor against target, in units of 1/10000
WarOdds(W, actor, target) ==
    W1_FRIENDLINESS * (ONE - W.civ[actor].friendliness)
      + W2_POP_PRESSURE * W.civ[actor].population_pressure
      + W3_RES_PRESSURE * W.civ[actor].resource_pressure_component
      + W4_CULT_DIFF * CultDiff(W.civ[actor].culture, W.civ[target].culture)

war_scores(W, war_targets, actor) ==
    SortedDesc([i \in 1 .. Len(war_targets) |->
                  [key |-> get_id(W, war_targets[i]),
                   score |-> WarOdds(W, actor, war_targets[i])]])

\* the values war_positives.index(True) can take over the draws random() < war_odds,
\* each draw being in [0, 1); 0 stands for no True in war_positives
WarPicks(scores) ==
    {j \in 1 .. Len(scores) :
        scores[j].score > 0 /\ \A i \in 1 .. (j - 1) : scores[i].score < ONE * ONE}
    \cup (IF \A i \in 1 .. Len(scores) : scores[i].score < ONE * ONE THEN {0} ELSE {})

RECURSIVE SeqMin(_)
SeqMin(s) == IF Len(s) = 1 THEN s[1] ELSE Min2(s[1], SeqMin(Tail(s)))

\* the planet attacked: with one origin planet the first planet id of the
\* target; otherwise planet_targets[argmin(axis 0)[0, 1], argmin(axis 1)[0, 0], 0],
\* the smallest planet id of the target
planet_target(W, actor, war_target) ==
    LET ids == get_planet_ids(W, war_target)
    IN  IF Len(W.civ[actor].planets) = 1 THEN list_planets[ids[1]]
        ELSE list_planets[SeqMin(ids)]

Interaction(type, civ1, civ2, pos) ==
    [type |-> type, civ1 |-> civ1, civ2 |-> civ2,
     defender_target_planet_initial_pos |-> pos]

\* the locals of interact_civs as they are when the loop over the actors starts;
\* given[c][k] observes how much of resource k civ c has given away in the
\* trades of this turn, rule observes which numbered rule of interact_civs2's
\* decision logic handled the last pair
NewTurn(active_civs) ==
    [ active_civs |-> active_civs,
      next |-> 1,
      interactions |-> << >>,
      conquest_events |-> << >>,
      given |-> [c \in CivObjs |-> ZeroRes],
      rule |-> "" ]

\* what an actor's iteration computes before it acts
Targets(W, active_civs, actor) ==
    LET reachable == reachable_civs(W, active_civs, actor)
    IN  [ coop_targets |-> reachable,
          trade_targets |-> trade_targets(W, reachable, actor),
          war_scores |-> war_scores(W, reachable, actor) ]

\* the draws choice(coop_targets) can make (None: coop_target is not assigned)
CoopDraws(coop_targets) ==
    IF coop_targets = << >> THEN {NoneObj}
    ELSE {coop_targets[i] : i \in 1 .. Len(coop_targets)}

\* S is the pair [w, turn] of the world and interact_civs' locals
DoCooperate(S, actor, coop_target) ==
    [ w |-> civs_cooperate(S.w, actor, coop_target),
      turn |-> [S.turn EXCEPT !.interactions =
                   Append(@, Interaction("cooperation", actor, coop_target, << >>))] ]

DoTrade(S, actor, trade_target, coop_target) ==
    LET amt == amt_to_trade(S.w, actor, trade_target)
    IN  [ w |-> civs_trade(S.w, actor, trade_target),
          turn |-> [S.turn EXCEPT
                      !.interactions = Append(@, Interaction("trade", actor, coop_target, << >>)),
                      !.given[actor] = [k \in Res |-> @[k] + Max2(0, 0 - amt[k])],
                      !.given[trade_target] = [k \in Res |-> @[k] + Max2(0, amt[k])]] ]

\* interact_civs as it would be if it wrote a conquest event after every war
WarRecorded_every_war(T, W2, actor, war_target, p, original_owner_civ) ==
    [ w |-> W2,
      turn |-> [T EXCEPT
                  !.interactions =
                      Append(@, Interaction("war", actor, war_target,
                                            <<W2.planet[p].pos_x, W2.planet[p].pos_y>>)),
                  !.conquest_events =
                      Append(@, [planet_id |-> W2.planet[p].id,
                                 new_owner_civ_id |-> get_id(W2, actor),
                                 old_owner_civ_id |-> get_id(W2, war_target)])] ]

\* the records interact_civs writes after civs_war has turned the world into W2
WarRecorded(T, W2, actor, war_target, p, original_owner_civ) ==
    LET T1 == [T EXCEPT !.interactions =
                  Append(@, Interaction("war", actor, war_target,
                                        <<W2.planet[p].pos_x, W2.planet[p].pos_y>>))]
    IN  [ w |-> W2,
          turn |-> IF W2.planet[p].civ = actor /\ original_owner_civ = war_target
                   THEN [T1 EXCEPT !.conquest_events =
                            Append(@, [planet_id |-> W2.planet[p].id,
                                       new_owner_civ_id |-> get_id(W2, actor),
                                       old_owner_civ_id |-> get_id(W2, war_target)])]
                   ELSE T1 ]

\* the war of actor on war_target: one result for each outcome civs_war can have
DoWar(S, actor, war_target) ==
    LET W1 == [S.w EXCEPT !.civ[actor].war_initiations_this_turn = @ + 1]
        p  == planet_target(W1, actor, war_target)
    IN  { WarRecorded(S.turn, W2, actor, war_target, p, W1.planet[p].civ) :
            W2 \in { civs_war(W1, actor, war_target, p, outcome) :
                       outcome \in WarOutcomes(W1, actor, war_target) } }

\* 1) Seek war if desparate, or cooperation if not desparate.
SeekFirst(S, actor, desparate, coop_targets, coop_target, war_target) ==
    IF desparate
    THEN (IF war_target # NoneObj THEN DoWar(S, actor, war_target) ELSE {S})
    ELSE (IF coop_targets # << >> THEN {DoCooperate(S, actor, coop_target)} ELSE {S})

\* 2) Seek trade.
SeekTrade(S, actor, trades, coop_target) ==
    IF trades # << >> THEN DoTrade(S, actor, trades[1].key, coop_target) ELSE S

\* 3) Seek cooperation if desparate, or war if not desparate.
SeekLast(S, actor, desparate, coop_targets, coop_target, war_target) ==
    IF desparate /\ coop_targets # << >> THEN {DoCooperate(S, actor, coop_target)}
    ELSE IF war_target # NoneObj THEN DoWar(S, actor, war_target)
    ELSE {S}

-----------------------------------------------------------------------------
(* Model.__init__ by scenario, and Model.run_simulation                     *)

\* Model.max_turns is MAX_TURNS_SIM in the code.  Three layouts of the three
\* planets are followed.  In the near and in the middle layout the civs come
\* in range of their neighbours at turn 8 and at turn 11, and the runs
\* followed are those of a Model whose max_turns is MaxTurns and MaxTurnsMid.
\* In the far layout nobody comes in range before a culture victory, and
\* max_turns is MAX_TURNS_SIM.
MaxTurns == 9
MaxTurnsMid == 11

MessageYield == 0     \* turn numbers start at 1

RunScenarios == {"friendzone", "thunderdome", "wolf", ""}
RunPos(layout) ==
    [p \in PlanetObjs |->
       IF layout = "near" THEN (IF p = 0 THEN <<0, 4>> ELSE IF p = 1 THEN <<0, 0>> ELSE <<0, 8>>)
       ELSE IF layout = "middle" THEN (IF p = 0 THEN <<0, 5>> ELSE IF p = 1 THEN <<0, 0>> ELSE <<0, 10>>)
       ELSE (IF p = 0 THEN <<0, 0>> ELSE IF p = 1 THEN <<0, 44>> ELSE <<38, 22>>)]
RunFood == {100 * ONE, 500 * ONE}
RunRes(food) == [p \in PlanetObjs |->
                   IF p = 0 THEN Stock(100 * ONE, food, 100 * ONE)
                   ELSE Stock(100 * ONE, 100 * ONE, 100 * ONE)]
RunCap == [p \in PlanetObjs |-> 1000 * ONE]
RunWorlds ==
    {[layout |-> "near", food |-> food, max_turns |-> MaxTurns] : food \in RunFood}
    \cup {[layout |-> "middle", food |-> 500 * ONE, max_turns |-> MaxTurnsMid],
          [layout |-> "far", food |-> 500 * ONE, max_turns |-> MAX_TURNS_SIM]}

\* the friendliness and resources arguments of the Civ constructors;
\* default_friendliness is the default value of the friendliness parameter
ScenarioFriendliness(scenario, default_friendliness) ==
    [c \in CivObjs |->
       IF scenario = "friendzone" THEN ONE
       ELSE IF scenario = "thunderdome" THEN 0
       ELSE IF scenario = "juggernaut" THEN (IF c = 0 THEN 0 ELSE default_friendliness)
       ELSE IF scenario = "wolf" THEN (IF c = 0 THEN 0 ELSE ONE)
       ELSE default_friendliness]
ScenarioResources(scenario) ==
    [c \in CivObjs |->
       IF scenario = "juggernaut" /\ c = 0
       THEN Stock(500 * ONE, 500 * ONE, 500 * ONE) ELSE ZeroRes]

Init ==
    /\ \E scenario \in RunScenarios, world \in RunWorlds :
         LET W == NewModel(RunPos(world.layout), RunRes(world.food), RunCap,
                           [c \in CivObjs |-> 0], [c \in CivObjs |-> 0],
                           ScenarioFriendliness(scenario, ONE \div 2),
                           ScenarioResources(scenario))
         IN  /\ civ = W.civ /\ planet = W.planet /\ list_civs = W.list_civs
             /\ max_turns = world.max_turns
    /\ pc = [op |-> "while"]
    /\ t = 0
    /\ end_type = ""
    /\ turn = NewTurn(<< >>)
    /\ calls = 0
    /\ winner_id = NoneObj
    /\ yielded = << >>
    /\ id_iters = [Civ |-> MIN_PLANETS, Planet |-> MIN_PLANETS]
    /\ friendliness_default = ONE \div 2

\* a loop head that lets one turn more through
LoopTest_one_more ==
    /\ pc.op = "while"
    /\ IF t <= max_turns
       THEN /\ t' = t + 1
            /\ pc' = [op |-> "update", civ_idx |-> Len(list_civs) - 1, updated |-> NoneObj]
       ELSE /\ t' = t
            /\ pc' = [op |-> "returned"]
    /\ UNCHANGED <<civ, planet, list_civs, end_type, turn, calls, max_turns, winner_id, id_iters, friendliness_default, yielded>>

\* while t < self.max_turns: t += 1
LoopTest ==
    /\ pc.op = "while"
    /\ IF t < max_turns
       THEN /\ t' = t + 1
            /\ pc' = [op |-> "update", civ_idx |-> Len(list_civs) - 1, updated |-> NoneObj]
       ELSE /\ t' = t
            /\ pc' = [op |-> "returned"]
    /\ UNCHANGED <<civ, planet, list_civs, end_type, turn, calls, max_turns, winner_id, id_iters, friendliness_default, yielded>>

\* one iteration of the loop for civ_idx in range(len(self.list_civs) - 1, -1, -1)
UpdateCiv ==
    /\ pc.op = "update"
    /\ pc.civ_idx >= 0
    /\ \E c \in {list_civs[pc.civ_idx + 1]} :
       \E grown \in {UpdateGrowth(civ[c])} :
           IF ~civ[c].alive
           THEN /\ list_civs' = [i \in 1 .. (Len(list_civs) - 1) |->
                                   IF i <= pc.civ_idx THEN list_civs[i] ELSE list_civs[i + 1]]
                /\ pc' = [pc EXCEPT !.civ_idx = @ - 1, !.updated = NoneObj]
                /\ UNCHANGED civ
           ELSE IF grown.population = 0          \* ZeroDivisionError leaves the generator
           THEN /\ civ' = [civ EXCEPT ![c] = grown]
                /\ pc' = [op |-> "raised"]
                /\ UNCHANGED list_civs
           ELSE IF grown.population < 0          \* tech becomes nan: not followed further
           THEN /\ civ' = [civ EXCEPT ![c] = grown]
                /\ pc' = [op |-> "nan", updated |-> c]
                /\ UNCHANGED list_civs
           ELSE \E updated \in {update_attributes(World, c).civ} :
                /\ civ' = updated
                /\ pc' = IF updated[c].has_won_culture_victory
                         THEN [op |-> "yield", kind |-> "Culture", n |-> 3]
                         ELSE [pc EXCEPT !.civ_idx = @ - 1, !.updated = c]
                /\ UNCHANGED list_civs
    /\ yielded' = IF pc'.op = "yield" THEN Append(yielded, MessageYield) ELSE yielded
    /\ UNCHANGED <<planet, t, end_type, turn, calls, max_turns, winner_id, id_iters, friendliness_default>>

\* run_simulation as it would be without the call of reset_turn_counters
BeginInteractions_no_reset ==
    /\ pc.op = "update"
    /\ pc.civ_idx < 0
    /\ LET active_civs_for_interaction == SelectSeq(list_civs, LAMBDA c : civ[c].alive)
       IN  IF active_civs_for_interaction = << >>
           THEN /\ pc' = [op |-> "yield", kind |-> "Stalemate", n |-> 1]
                /\ UNCHANGED <<civ, turn>>
           ELSE /\ civ' = civ
                /\ turn' = NewTurn(active_civs_for_interaction)
                /\ pc' = [op |-> "interact_civs"]
    /\ yielded' = IF pc'.op = "yield" THEN Append(yielded, MessageYield) ELSE yielded
    /\ UNCHANGED <<planet, list_civs, t, end_type, calls, max_turns, winner_id, id_iters, friendliness_default>>

\* the snapshot of the alive civs, reset_turn_counters, and the start of interact_civs
BeginInteractions ==
    /\ pc.op = "update"
    /\ pc.civ_idx < 0
    /\ LET active_civs_for_interaction == SelectSeq(list_civs, LAMBDA c : civ[c].alive)
       IN  IF active_civs_for_interaction = << >>
           THEN /\ pc' = [op |-> "yield", kind |-> "Stalemate", n |-> 1]
                /\ UNCHANGED <<civ, turn>>
           ELSE /\ civ' = [c \in CivObjs |->
                             IF \E i \in 1 .. Len(active_civs_for_interaction) :
                                   active_civs_for_interaction[i] = c
                             THEN [civ[c] EXCEPT !.war_initiations_this_turn = 0]
                             ELSE civ[c]]
                /\ turn' = NewTurn(active_civs_for_interaction)
                /\ pc' = [op |-> "interact_civs"]
    /\ yielded' = IF pc'.op = "yield" THEN Append(yielded, MessageYield) ELSE yielded
    /\ UNCHANGED <<planet, list_civs, t, end_type, calls, max_turns, winner_id, id_iters, friendliness_default>>

\* one iteration of for actor in active_civs: the targets are computed, the
\* draws choice(coop_targets) and war_positives are made, then the three steps
InteractActor ==
    /\ pc.op = "interact_civs"
    /\ turn.next <= Len(turn.active_civs)
    /\ LET actor == turn.active_civs[turn.next]
           desparate == civ[actor].is_desparate
       IN  IF ~civ[actor].alive
           THEN /\ turn' = [turn EXCEPT !.next = @ + 1]
                /\ UNCHANGED <<civ, planet, list_civs>>
           ELSE \E G \in {Targets(World, turn.active_civs, actor)} :
                \E coop_target \in CoopDraws(G.coop_targets) :
                \E war_target \in {IF pick = 0 THEN NoneObj ELSE civ_ids[G.war_scores[pick].key] :
                                     pick \in WarPicks(G.war_scores)} :
                \E S0 \in {[w |-> World, turn |-> [turn EXCEPT !.next = @ + 1]]} :
                \E S1 \in SeekFirst(S0, actor, desparate, G.coop_targets, coop_target, war_target) :
                \E S2 \in {SeekTrade(S1, actor, G.trade_targets, coop_target)} :
                \E S3 \in SeekLast(S2, actor, desparate, G.coop_targets, coop_target, war_target) :
                   /\ SetWorld(S3.w)
                   /\ turn' = S3.turn
    /\ UNCHANGED <<pc, t, end_type, calls, max_turns, winner_id, id_iters, friendliness_default, yielded>>

\* yield t, interactions, conquest_events
YieldTurn ==
    /\ pc.op = "interact_civs"
    /\ turn.next > Len(turn.active_civs)
    /\ pc' = [op |-> "yield", kind |-> "turn", n |-> 1]
    /\ yielded' = Append(yielded, t)
    /\ UNCHANGED <<civ, planet, list_civs, t, end_type, turn, calls, max_turns, winner_id, id_iters, friendliness_default>>

\* the end conditions as they would be if end_type were assigned before the
\* message is yielded
ResumeTurn_end_type_first ==
    /\ pc.op = "yield"
    /\ pc.kind = "turn"
    /\ LET current_alive_civs == SelectSeq(list_civs, LAMBDA c : civ[c].alive)
       IN  pc' = IF Len(current_alive_civs) = 1
                 THEN [op |-> "yield", kind |-> "Military", n |-> 1]
                 ELSE IF \E i \in 1 .. Len(current_alive_civs) :
                            civ[current_alive_civs[i]].has_won_culture_victory
                 THEN [op |-> "yield", kind |-> "Culture", n |-> 1]
                 ELSE IF current_alive_civs = << >>
                 THEN [op |-> "yield", kind |-> "Stalemate", n |-> 1]
                 ELSE [op |-> "while"]
    /\ yielded' = IF pc'.op = "yield" THEN Append(yielded, MessageYield) ELSE yielded
    /\ end_type' = IF pc'.op = "yield" THEN pc'.kind ELSE end_type
    /\ UNCHANGED <<civ, planet, list_civs, t, turn, calls, max_turns, winner_id, id_iters, friendliness_default>>

\* the generator is resumed after the turn's yield: 3) Check End Conditions
ResumeTurn ==
    /\ pc.op = "yield"
    /\ pc.kind = "turn"
    /\ LET current_alive_civs == SelectSeq(list_civs, LAMBDA c : civ[c].alive)
       IN  pc' = IF Len(current_alive_civs) = 1
                 THEN [op |-> "yield", kind |-> "Military", n |-> 1]
                 ELSE IF \E i \in 1 .. Len(current_alive_civs) :
                            civ[current_alive_civs[i]].has_won_culture_victory
                 THEN [op |-> "yield", kind |-> "Culture", n |-> 1]
                 ELSE IF current_alive_civs = << >>
                 THEN [op |-> "yield", kind |-> "Stalemate", n |-> 1]
                 ELSE [op |-> "while"]
    /\ yielded' = IF pc'.op = "yield" THEN Append(yielded, MessageYield) ELSE yielded
    /\ UNCHANGED <<civ, planet, list_civs, t, end_type, turn, calls, max_turns, winner_id, id_iters, friendliness_default>>

\* the generator as it would be if it went on with the next turn after the
\* last yield of a terminal message
ResumeTerminal_next_turn ==
    /\ pc.op = "yield"
    /\ pc.kind # "turn"
    /\ IF pc.n > 1
       THEN /\ pc' = [pc EXCEPT !.n = @ - 1]
            /\ yielded' = Append(yielded, MessageYield)
            /\ UNCHANGED end_type
       ELSE /\ pc' = [op |-> "while"]
            /\ end_type' = pc.kind
            /\ UNCHANGED yielded
    /\ UNCHANGED <<civ, planet, list_civs, t, turn, calls, max_turns, winner_id, id_iters, friendliness_default>>

\* the generator is resumed after the yield of a terminal message: the yield
\* is repeated (culture victory in the update loop: three times), and after
\* the last one end_type is set and the generator returns
ResumeTerminal ==
    /\ pc.op = "yield"
    /\ pc.kind # "turn"
    /\ IF pc.n > 1
       THEN /\ pc' = [pc EXCEPT !.n = @ - 1]
            /\ yielded' = Append(yielded, MessageYield)
            /\ UNCHANGED end_type
       ELSE /\ pc' = [op |-> "returned"]
            /\ end_type' = pc.kind
            /\ UNCHANGED yielded
    /\ UNCHANGED <<civ, planet, list_civs, t, turn, calls, max_turns, winner_id, id_iters, friendliness_default>>

Next ==
    \/ LoopTest
    \/ UpdateCiv
    \/ BeginInteractions
    \/ InteractActor
    \/ YieldTurn
    \/ ResumeTurn
    \/ ResumeTerminal

Spec == Init /\ [][Next]_vars

\* the runs in which the consumer of the generator keeps asking for the next
\* value (for _ in sim.run_simulation(): pass): every step of the loop is
\* weakly fair.  For UpdateCiv and InteractActor the fairness condition is
\* written with the guard of the action in the place of ENABLED.
UpdateCivEnabled == pc.op = "update" /\ pc.civ_idx >= 0
InteractActorEnabled == pc.op = "interact_civs" /\ turn.next <= Len(turn.active_civs)
SpecFair ==
    /\ Spec
    /\ WF_vars(LoopTest)
    /\ WF_vars(BeginInteractions)
    /\ WF_vars(YieldTurn)
    /\ WF_vars(ResumeTurn)
    /\ WF_vars(ResumeTerminal)
    /\ ([]<>(~UpdateCivEnabled) \/ []<><<UpdateCiv>>_vars)
    /\ ([]<>(~InteractActorEnabled) \/ []<><<InteractActor>>_vars)

-----------------------------------------------------------------------------
(* Model.interact_civs2, the pairwise decision engine, called on a Model    *)
(* whose civs have been updated a number of times.                          *)

WAR_SCORE_EFFECTIVENESS_MODIFIER == 50       \* 0.50
AGGRESSION_FRIENDLINESS_THRESHOLD == 10      \* 0.10

\* [(active_civs[i], active_civs[j]) for i in range(n) for j in range(i + 1, n)]
RECURSIVE PairsFrom(_, _, _)
PairsFrom(active_civs, i, j) ==
    IF i > Len(active_civs) THEN << >>
    ELSE IF j > Len(active_civs) THEN PairsFrom(active_civs, i + 1, i + 2)
    ELSE << <<active_civs[i], active_civs[j]>> >> \o PairsFrom(active_civs, i, j + 1)
civ_pairs(active_civs) == PairsFrom(active_civs, 1, 2)

\* the two nested loops over the planet ids: k counts the iterations, min_dist
\* is the square of the smallest distance so far (NoneObj: float('inf'))
RECURSIVE ClosestLoop(_, _, _, _, _, _)
ClosestLoop(W, attacker_ids, defender_ids, k, min_dist, targeted_planet_object) ==
    IF k >= Len(attacker_ids) * Len(defender_ids) THEN targeted_planet_object
    ELSE LET p_attacker_id == attacker_ids[(k \div Len(defender_ids)) + 1]
             p_defender_id == defender_ids[(k % Len(defender_ids)) + 1]
             dist == RangeSquared(W, p_attacker_id, p_defender_id)
         IN  IF min_dist = NoneObj \/ dist < min_dist
             THEN ClosestLoop(W, attacker_ids, defender_ids, k + 1, dist,
                              list_planets[p_defender_id])
             ELSE ClosestLoop(W, attacker_ids, defender_ids, k + 1, min_dist,
                              targeted_planet_object)

\* the closest planet of potential_target_civ to potential_aggressor
TargetedPlanet(W, potential_aggressor, potential_target_civ) ==
    IF W.civ[potential_aggressor].planets # << >> /\ W.civ[potential_target_civ].planets # << >>
    THEN ClosestLoop(W, get_planet_ids(W, potential_aggressor),
                     get_planet_ids(W, potential_target_civ), 0, NoneObj, NoneObj)
    ELSE NoneObj

delta_C_12(W, c1, c2) ==
    LET max_c == Max2(W.civ[c1].culture, W.civ[c2].culture)
    IN  IF max_c > 0
        THEN CeilDiv(Abs(W.civ[c1].culture - W.civ[c2].culture) * ONE, max_c) ELSE 0

\* war_score_1_attacks_2 and war_score_2_attacks_1, in units of 1/10000
WarScore(W, c, c1, c2) ==
    W1_FRIENDLINESS * (ONE - W.civ[c].friendliness)
      + W2_POP_PRESSURE * W.civ[c].population_pressure
      + W3_RES_PRESSURE * W.civ[c].resource_pressure_component
      + W4_CULT_DIFF * delta_C_12(W, c1, c2)

\* the values (score * WAR_SCORE_EFFECTIVENESS_MODIFIER) > random() can take,
\* the draw being in [0, 1)
Triggers(score) ==
    {b \in BOOLEAN : IF b THEN score * WAR_SCORE_EFFECTIVENESS_MODIFIER > 0
                          ELSE score * WAR_SCORE_EFFECTIVENESS_MODIFIER < ONE * ONE * ONE}

Interaction2(type, civ1, civ2, pos, attacker, defender) ==
    [type |-> type, civ1 |-> civ1, civ2 |-> civ2,
     defender_target_planet_initial_pos |-> pos,
     attacker |-> attacker, defender |-> defender]

PlanetPos(W, p) == IF p = NoneObj THEN << >> ELSE <<W.planet[p].pos_x, W.planet[p].pos_y>>

\* the results of a rule of the decision logic, marked with the rule
Ruled(results, rule) == {[S EXCEPT !.turn.rule = rule] : S \in results}

\* a war of the pair: one result for each outcome civs_war can have, with the
\* conquest event and the interaction record
War2(S, civ1, civ2, actual_attacker, actual_defender, targeted_planet_object) ==
    LET W1 == [S.w EXCEPT !.civ[actual_attacker].war_initiations_this_turn = @ + 1]
        p  == targeted_planet_object
        original_owner_civ == IF p # NoneObj THEN W1.planet[p].civ ELSE NoneObj
        T1 == [S.turn EXCEPT !.interactions =
                  Append(@, Interaction2("war", civ1, civ2, PlanetPos(W1, p),
                                         actual_attacker, actual_defender))]
    IN  { [ w |-> W2,
            turn |-> IF p # NoneObj /\ W2.planet[p].civ = actual_attacker
                        /\ original_owner_civ = actual_defender
                     THEN [T1 EXCEPT !.conquest_events =
                              Append(@, [planet_id |-> W2.planet[p].id,
                                         new_owner_civ_id |-> get_id(W2, actual_attacker),
                                         old_owner_civ_id |-> get_id(W2, actual_defender)])]
                     ELSE T1 ] :
            W2 \in { civs_war(W1, actual_attacker, actual_defender, p, outcome) :
                       outcome \in WarOutcomes(W1, actual_attacker, actual_defender) } }

\* a step 3 that lets a pair cooperate when one of the two has friendliness 1
Peaceful_either_friendly(S, civ1, civ2, p) ==
    LET f1 == S.w.civ[civ1].friendliness
        f2 == S.w.civ[civ2].friendliness
    IN  IF f1 = ONE \/ f2 = ONE
        THEN Ruled({ [ w |-> civs_cooperate(S.w, civ1, civ2),
                 turn |-> [S.turn EXCEPT !.interactions =
                             Append(@, Interaction2("cooperation", civ1, civ2,
                                                    PlanetPos(S.w, p), NoneObj, NoneObj))] ] },
                   "3. Cooperation")
        ELSE IF f1 < AGGRESSION_FRIENDLINESS_THRESHOLD \/ f2 < AGGRESSION_FRIENDLINESS_THRESHOLD
        THEN LET civ1_is_aggressor_candidate == f1 < AGGRESSION_FRIENDLINESS_THRESHOLD
                 civ2_is_aggressor_candidate == f2 < AGGRESSION_FRIENDLINESS_THRESHOLD
                 actual_attacker ==
                     IF civ1_is_aggressor_candidate /\ ~civ2_is_aggressor_candidate THEN civ1
                     ELSE IF ~civ1_is_aggressor_candidate /\ civ2_is_aggressor_candidate THEN civ2
                     ELSE IF f1 <= f2 THEN civ1 ELSE civ2
             IN  Ruled(War2(S, civ1, civ2, actual_attacker,
                            IF actual_attacker = civ1 THEN civ2 ELSE civ1, p),
                       "4. Low-Friendliness Aggression War")
        ELSE Ruled({ [ w |-> civs_trade(S.w, civ1, civ2),
                 turn |-> [S.turn EXCEPT !.interactions =
                             Append(@, Interaction2("trade", civ1, civ2,
                                                    PlanetPos(S.w, p), NoneObj, NoneObj))] ] },
                   "5. Trade")

\* a rule 4 in which civ2 attacks when the two friendliness values are equal
Peaceful_tie_to_civ2(S, civ1, civ2, p) ==
    LET f1 == S.w.civ[civ1].friendliness
        f2 == S.w.civ[civ2].friendliness
    IN  IF f1 = ONE /\ f2 = ONE
        THEN Ruled({ [ w |-> civs_cooperate(S.w, civ1, civ2),
                 turn |-> [S.turn EXCEPT !.interactions =
                             Append(@, Interaction2("cooperation", civ1, civ2,
                                                    PlanetPos(S.w, p), NoneObj, NoneObj))] ] },
                   "3. Cooperation")
        ELSE IF f1 < AGGRESSION_FRIENDLINESS_THRESHOLD \/ f2 < AGGRESSION_FRIENDLINESS_THRESHOLD
        THEN LET civ1_is_aggressor_candidate == f1 < AGGRESSION_FRIENDLINESS_THRESHOLD
                 civ2_is_aggressor_candidate == f2 < AGGRESSION_FRIENDLINESS_THRESHOLD
                 actual_attacker ==
                     IF civ1_is_aggressor_candidate /\ ~civ2_is_aggressor_candidate THEN civ1
                     ELSE IF ~civ1_is_aggressor_candidate /\ civ2_is_aggressor_candidate THEN civ2
                     ELSE IF f1 < f2 THEN civ1 ELSE civ2
             IN  Ruled(War2(S, civ1, civ2, actual_attacker,
                            IF actual_attacker = civ1 THEN civ2 ELSE civ1, p),
                       "4. Low-Friendliness Aggression War")
        ELSE Ruled({ [ w |-> civs_trade(S.w, civ1, civ2),
                 turn |-> [S.turn EXCEPT !.interactions =
                             Append(@, Interaction2("trade", civ1, civ2,
                                                    PlanetPos(S.w, p), NoneObj, NoneObj))] ] },
                   "5. Trade")

\* 3. Cooperation, 4. Low-Friendliness Aggression War, 5. Trade
Peaceful(S, civ1, civ2, p) ==
    LET f1 == S.w.civ[civ1].friendliness
        f2 == S.w.civ[civ2].friendliness
    IN  IF f1 = ONE /\ f2 = ONE
        THEN Ruled({ [ w |-> civs_cooperate(S.w, civ1, civ2),
                 turn |-> [S.turn EXCEPT !.interactions =
                             Append(@, Interaction2("cooperation", civ1, civ2,
                                                    PlanetPos(S.w, p), NoneObj, NoneObj))] ] },
                   "3. Cooperation")
        ELSE IF f1 < AGGRESSION_FRIENDLINESS_THRESHOLD \/ f2 < AGGRESSION_FRIENDLINESS_THRESHOLD
        THEN LET civ1_is_aggressor_candidate == f1 < AGGRESSION_FRIENDLINESS_THRESHOLD
                 civ2_is_aggressor_candidate == f2 < AGGRESSION_FRIENDLINESS_THRESHOLD
                 actual_attacker ==
                     IF civ1_is_aggressor_candidate /\ ~civ2_is_aggressor_candidate THEN civ1
                     ELSE IF ~civ1_is_aggressor_candidate /\ civ2_is_aggressor_candidate THEN civ2
                     ELSE IF f1 <= f2 THEN civ1 ELSE civ2
             IN  Ruled(War2(S, civ1, civ2, actual_attacker,
                            IF actual_attacker = civ1 THEN civ2 ELSE civ1, p),
                       "4. Low-Friendliness Aggression War")
        ELSE Ruled({ [ w |-> civs_trade(S.w, civ1, civ2),
                 turn |-> [S.turn EXCEPT !.interactions =
                             Append(@, Interaction2("trade", civ1, civ2,
                                                    PlanetPos(S.w, p), NoneObj, NoneObj))] ] },
                   "5. Trade")

\* 2. WarScore-based War, for one result of the two draws
ScoreBranch(S, civ1, civ2, p, civ1_triggers_warscore, civ2_triggers_warscore) ==
    LET war_score_1_attacks_2 == WarScore(S.w, civ1, civ1, civ2)
        war_score_2_attacks_1 == WarScore(S.w, civ2, civ1, civ2)
    IN  IF civ1_triggers_warscore /\ civ2_triggers_warscore
        THEN Ruled(IF war_score_1_attacks_2 >= war_score_2_attacks_1
                   THEN War2(S, civ1, civ2, civ1, civ2, p)
                   ELSE War2(S, civ1, civ2, civ2, civ1, p), "2. WarScore-based War")
        ELSE IF civ1_triggers_warscore
        THEN Ruled(War2(S, civ1, civ2, civ1, civ2, p), "2. WarScore-based War")
        ELSE IF civ2_triggers_warscore
        THEN Ruled(War2(S, civ1, civ2, civ2, civ1, p), "2. WarScore-based War")
        ELSE Peaceful(S, civ1, civ2, p)

\* what interact_civs2 does with a pair that is alive and in range
PairDecide(S, civ1, civ2) ==
    LET C1 == S.w.civ[civ1]
        C2 == S.w.civ[civ2]
        potential_aggressor == IF C1.friendliness < C2.friendliness THEN civ1 ELSE civ2
        potential_target_civ == IF potential_aggressor = civ1 THEN civ2 ELSE civ1
        p == TargetedPlanet(S.w, potential_aggressor, potential_target_civ)
    IN  \* 1. Desperation War
        IF C1.is_desparate /\ ~C2.is_desparate
        THEN Ruled(War2(S, civ1, civ2, civ1, civ2, p), "1. Desperation War")
        ELSE IF C2.is_desparate /\ ~C1.is_desparate
        THEN Ruled(War2(S, civ1, civ2, civ2, civ1, p), "1. Desperation War")
        ELSE IF C1.is_desparate /\ C2.is_desparate
        THEN Ruled(IF C1.military > C2.military THEN War2(S, civ1, civ2, civ1, civ2, p)
                   ELSE IF C2.military > C1.military THEN War2(S, civ1, civ2, civ2, civ1, p)
                   ELSE IF C1.friendliness <= C2.friendliness
                   THEN War2(S, civ1, civ2, civ1, civ2, p)
                   ELSE War2(S, civ1, civ2, civ2, civ1, p), "1. Desperation War")
        ELSE UNION { ScoreBranch(S, civ1, civ2, p, b1, b2) :
                       b1 \in Triggers(WarScore(S.w, civ1, civ1, civ2)),
                       b2 \in Triggers(WarScore(S.w, civ2, civ1, civ2)) }

\* The callers of interact_civs2: every alive civ of the roster is updated
\* (as the update loop of a turn does), or interact_civs2 is called on the
\* alive civs; MaxPairCalls calls at most, MaxPairTurns of them calls of
\* interact_civs2.  A round of updates in which
\* update_attributes would raise (population 0) is not followed.
MaxPairCalls == 12
MaxPairTurns == 2

PairsFood == {{0}, {0, 1}}           \* the planets with food 500
PairsRes(rich) == [p \in PlanetObjs |->
                     Stock(100 * ONE, IF p \in rich THEN 500 * ONE ELSE 100 * ONE, 100 * ONE)]

InitPairs ==
    /\ \E scenario \in RunScenarios, layout \in {"near", "middle"}, rich \in PairsFood :
         LET W == NewModel(RunPos(layout), PairsRes(rich), RunCap,
                           [c \in CivObjs |-> 0], [c \in CivObjs |-> 0],
                           ScenarioFriendliness(scenario, ONE \div 2),
                           ScenarioResources(scenario))
         IN  civ = W.civ /\ planet = W.planet /\ list_civs = W.list_civs
    /\ pc = [op |-> "init"]
    /\ t = 0
    /\ end_type = ""
    /\ turn = NewTurn(<< >>)
    /\ calls = 0
    /\ max_turns = MAX_TURNS_SIM
    /\ winner_id = NoneObj
    /\ yielded = << >>
    /\ id_iters = [Civ |-> MIN_PLANETS, Planet |-> MIN_PLANETS]
    /\ friendliness_default = ONE \div 2

RECURSIVE UpdateAll(_, _)
UpdateAll(W, civ_idx) ==
    IF civ_idx < 0 THEN W
    ELSE LET c == W.list_civs[civ_idx + 1]
         IN  UpdateAll(IF W.civ[c].alive THEN update_attributes(W, c) ELSE W, civ_idx - 1)

PairsUpdate ==
    /\ pc.op \in {"init", "updated", "returned"}
    /\ calls < MaxPairCalls
    /\ calls' = calls + 1
    /\ \A i \in 1 .. Len(list_civs) : UpdateGrowth(civ[list_civs[i]]).population > 0
    /\ \E W \in {UpdateAll(World, Len(list_civs) - 1)} : SetWorld(W)
    /\ pc' = [op |-> "updated"]
    /\ UNCHANGED <<t, end_type, turn, max_turns, winner_id, id_iters, friendliness_default, yielded>>

\* interact_civs2(t, active_civs), for the turn numbers t = 1, 2, ..., MaxPairTurns
PairsCall ==
    /\ pc.op \in {"init", "updated", "returned"}
    /\ calls < MaxPairCalls
    /\ t < MaxPairTurns
    /\ calls' = calls + 1
    /\ t' = t + 1
    /\ turn' = NewTurn(SelectSeq(list_civs, LAMBDA c : civ[c].alive))
    /\ pc' = [op |-> "interact_civs2"]
    /\ UNCHANGED <<civ, planet, list_civs, end_type, max_turns, winner_id, id_iters, friendliness_default, yielded>>

\* one iteration of for civ1, civ2 in civ_pairs
PairStep ==
    /\ pc.op = "interact_civs2"
    /\ turn.next <= Len(civ_pairs(turn.active_civs))
    /\ LET civ1 == civ_pairs(turn.active_civs)[turn.next][1]
           civ2 == civ_pairs(turn.active_civs)[turn.next][2]
       IN  IF \/ ~civ[civ1].alive \/ ~civ[civ2].alive
              \/ ~can_interact(World, civ1, civ2) \/ ~can_interact(World, civ2, civ1)
           THEN /\ turn' = [turn EXCEPT !.next = @ + 1]
                /\ UNCHANGED <<civ, planet, list_civs>>
           ELSE \E S0 \in {[w |-> World, turn |-> [turn EXCEPT !.next = @ + 1]]} :
                \E S1 \in PairDecide(S0, civ1, civ2) :
                   /\ SetWorld(S1.w)
                   /\ turn' = S1.turn
    /\ UNCHANGED <<pc, t, end_type, calls, max_turns, winner_id, id_iters, friendliness_default, yielded>>

\* return interactions, conquest_events, civ_interaction_counts
PairsReturn ==
    /\ pc.op = "interact_civs2"
    /\ turn.next > Len(civ_pairs(turn.active_civs))
    /\ pc' = [op |-> "returned"]
    /\ UNCHANGED <<civ, planet, list_civs, t, end_type, turn, calls, max_turns, winner_id, id_iters, friendliness_default, yielded>>

NextPairs ==
    \/ PairsUpdate
    \/ PairsCall
    \/ PairStep
    \/ PairsReturn

SpecPairs == InitPairs /\ [][NextPairs]_vars

-----------------------------------------------------------------------------
(* Properties of the direct calls *)

\* a ledger entry read the way a Counter is read: a missing key is 0
LedgerGet(ledger, k) == IF k \in DOMAIN ledger THEN ledger[k] ELSE 0
LedgerIsZero(ledger) == \A k \in Res : LedgerGet(ledger, k) = 0
Owners == [p \in PlanetObjs |-> planet[p].civ]
CapSum(d) == SumDom([i \in 1 .. Len(d) |-> planet[d[i].obj].population_cap], 1 .. Len(d))

\* C2: after any sequence of assign_civ, remove_civ, civs_war and kill_civ
\* calls every planet is in at most one civ's planets dict, planet.civ is c
\* exactly when planet.id is a key of c.planets, c.num_planets is the number
\* of entries of c.planets and c.population_cap is the sum of their capacities.
OwnershipConsistent ==
    /\ \A p \in PlanetObjs :
         /\ Cardinality({c \in CivObjs : DictHas(civ[c].planets, planet[p].id)}) <= 1
         /\ \A c \in CivObjs :
              (planet[p].civ = c) <=>
                 (\E i \in 1 .. Len(civ[c].planets) :
                     civ[c].planets[i].id = planet[p].id /\ civ[c].planets[i].obj = p)
    /\ \A c \in CivObjs :
         /\ civ[c].num_planets = Len(civ[c].planets)
         /\ civ[c].population_cap = CapSum(civ[c].planets)

\* C2 witness: a civs_war call has moved a planet to the attacker and the
\* defender, left without planets, has been killed
ConquestHappened ==
    /\ pc.op = "civs_war"
    /\ civ[pc.c1].num_planets = 2
    /\ ~civ[pc.c2].alive
    /\ planet[pc.p].civ = pc.c1

\* C4: in every civs_trade(A, B) call and for every resource, the change of
\* A's stock is the exact negation of the change of B's stock.
TradeConserves ==
    [][pc'.op = "civs_trade" =>
         \A k \in Res :
            civ'[pc'.c1].resources[k] - civ[pc'.c1].resources[k]
              = 0 - (civ'[pc'.c2].resources[k] - civ[pc'.c2].resources[k])]_vars

\* C4 witness: a trade has moved resources in both directions
TwoWayTradeHappened ==
    /\ pc.op = "civs_trade"
    /\ \E k \in Res : civ[pc.c1].resources[k] > pc.before[pc.c1][k]
    /\ \E k \in Res : civ[pc.c1].resources[k] < pc.before[pc.c1][k]

\* what a civs_trade call moved to civ1 (net, per resource), and each side's
\* total positive outflow
NetToCiv1(k) == civ'[pc'.c1].resources[k] - civ[pc'.c1].resources[k]
OutflowCiv2 == SumDom([k \in Res |-> NetToCiv1(k)], {k \in Res : NetToCiv1(k) > 0})
OutflowCiv1 == SumDom([k \in Res |-> 0 - NetToCiv1(k)], {k \in Res : NetToCiv1(k) < 0})

\* C6: civs_trade adds TRADE_TECH_BOOST to a civ's tech exactly when the
\* other side's total outflow strictly exceeds its total inflow; with no flow
\* or balanced flows neither tech changes.
TradeBoostToNetReceiver ==
    [][pc'.op = "civs_trade" =>
         /\ civ'[pc'.c1].tech =
              civ[pc'.c1].tech + (IF OutflowCiv2 > OutflowCiv1 THEN TRADE_TECH_BOOST ELSE 0)
         /\ civ'[pc'.c2].tech =
              civ[pc'.c2].tech + (IF OutflowCiv1 > OutflowCiv2 THEN TRADE_TECH_BOOST ELSE 0)]_vars

\* C7: after civs_trade(A, B), A's ledger entry for B is the net amount moved
\* to A per resource, and B's ledger entry for A is its exact negation.
TradeLedgersOpposite ==
    [][pc'.op = "civs_trade" =>
         \A k \in Res :
            /\ LedgerGet(civ'[pc'.c1].traded_resources[civ[pc'.c2].civ_id], k) = NetToCiv1(k)
            /\ LedgerGet(civ'[pc'.c2].traded_resources[civ[pc'.c1].civ_id], k) = 0 - NetToCiv1(k)]_vars

\* C8: a war declared right after a trade between the same two civs, with
\* nothing outstanding before that trade and no conquest in the war, puts
\* both stocks back to their values before the trade and both ledger entries
\* to zero.
TradeReversalRoundTrip ==
    [][(/\ pc.op = "civs_trade"
        /\ ~pc.outstanding
        /\ pc'.op = "civs_war"
        /\ {pc'.c1, pc'.c2} = {pc.c1, pc.c2}
        /\ pc'.p = NoneObj)
       =>
       (/\ civ'[pc.c1].resources = pc.before[pc.c1]
        /\ civ'[pc.c2].resources = pc.before[pc.c2]
        /\ LedgerIsZero(civ'[pc.c1].traded_resources[civ[pc.c2].civ_id])
        /\ LedgerIsZero(civ'[pc.c2].traded_resources[civ[pc.c1].civ_id]))]_vars

\* C9: a civs_war call in which attacker and defender both have combat power
\* 0 changes no state.
ZeroPowerWarIsNoOp ==
    [][(/\ pc'.op = "civs_war"
        /\ CombatPower(civ[pc'.c1]) = 0
        /\ CombatPower(civ[pc'.c2]) = 0)
       => (civ' = civ /\ planet' = planet /\ list_civs' = list_civs)]_vars

\* the three outcomes of the claim C10, for the call civs_war(a, d, ...)
Same(a, fields) == \A f \in fields : civ'[a][f] = civ[a][f]
StalemateStep(a, d) ==
    /\ CombatPower(civ[a]) = 0 /\ CombatPower(civ[d]) = 0
    /\ Same(a, {"victories", "military", "tech", "culture"})
    /\ Same(d, {"victories", "military", "tech", "culture"})
    /\ Owners' = Owners
AttackerWinStep(a, d) ==
    /\ civ'[a].victories = civ[a].victories + 1
    /\ civ'[a].military = civ[a].military + WAR_WIN_BOOST
    /\ civ'[a].tech = civ[a].tech + WAR_WIN_BOOST
    /\ Same(a, {"culture"})
    /\ Same(d, {"victories", "military", "tech", "culture", "friendliness"})
DefenderWinStep(a, d) ==
    /\ civ'[d].victories = civ[d].victories + 1
    /\ civ'[d].military = civ[d].military + WAR_WIN_BOOST
    /\ civ'[d].tech = civ[d].tech + WAR_WIN_BOOST
    /\ Same(d, {"culture"})
    /\ civ'[a].tech = Max2(0, civ[a].tech - WAR_PENALTY)
    /\ civ'[a].culture = Max2(0, civ[a].culture - WAR_PENALTY)
    /\ Same(a, {"victories", "military"})
    /\ Owners' = Owners

-----------------------------------------------------------------------------
(* Properties of the runs *)

\* C1: at every yield of run_simulation (turn snapshot or terminal message)
\* every civ ever created satisfies alive == (num_planets > 0).
EliminationInvariant ==
    pc.op = "yield" => \A c \in CivObjs : civ[c].alive <=> (civ[c].num_planets > 0)

\* C1 witness: a turn is yielded in which a civ has lost its last planet in a
\* war and another civ owns two planets
EliminationYielded ==
    /\ pc.op = "yield"
    /\ \E c \in CivObjs : ~civ[c].alive /\ civ[c].num_planets = 0
    /\ \E c \in CivObjs : civ[c].alive /\ civ[c].num_planets = 2
    /\ turn.conquest_events # << >>

\* C3: in every turn of every run, after the Economy Update of a civ each of
\* its three resource stocks is >= 0.
StocksNonNegativeAfterUpdate ==
    (pc.op \in {"update", "nan"} /\ pc.updated # NoneObj)
       => \A k \in Res : civ[pc.updated].resources[k] >= 0

\* C5: over all the trades a civ takes part in during one turn, the total
\* amount of a resource it gives away never exceeds the surplus its Economy
\* Update computed for that turn.
GivenWithinSurplus ==
    pc.op = "interact_civs" =>
       \A c \in CivObjs : \A k \in Res : turn.given[c][k] <= civ[c].surplus[k]

\* the records and the events a step of interact_civs has appended
NewInteractions ==
    SubSeq(turn'.interactions, Len(turn.interactions) + 1, Len(turn'.interactions))
NewConquests ==
    SubSeq(turn'.conquest_events, Len(turn.conquest_events) + 1, Len(turn'.conquest_events))
PlanetAt(pos) == CHOOSE p \in PlanetObjs : <<planet[p].pos_x, planet[p].pos_y>> = pos
OwnerChanged == {p \in PlanetObjs : planet'[p].civ # planet[p].civ}

\* for the war record r of an actor's iteration: an event is written exactly
\* when the targeted planet went from the defender to the attacker, and it
\* names that planet, the attacker as new owner and the defender as old owner
WarEventMatches(r) ==
    LET p == PlanetAt(r.defender_target_planet_initial_pos)
        conquered == planet[p].civ = r.civ2 /\ planet'[p].civ = r.civ1
    IN  /\ conquered <=> NewConquests # << >>
        /\ \A j \in 1 .. Len(NewConquests) :
              NewConquests[j] = [planet_id |-> planet[p].id,
                                 new_owner_civ_id |-> civ[r.civ1].civ_id,
                                 old_owner_civ_id |-> civ[r.civ2].civ_id]

\* C11: in every iteration of interact_civs a conquest event is written for
\* a war if and only if the targeted planet was the defender's before the
\* battle and is the attacker's after it, and the event carries the planet's
\* id, the attacker's id as new owner and the defender's id as old owner;
\* without a war no event is written; the planets whose owner changes in the
\* iteration are the planets of the events written in it, and no planet
\* changes owner in any other step of run_simulation, so the planets whose
\* owner changed in a turn are those of the turn's conquest events.
ConquestEventsMatch ==
    [][ IF pc.op = "interact_civs" /\ pc'.op = "interact_civs"
        THEN /\ \A i \in 1 .. Len(NewInteractions) :
                  NewInteractions[i].type = "war" => WarEventMatches(NewInteractions[i])
             /\ (\A i \in 1 .. Len(NewInteractions) : NewInteractions[i].type # "war")
                  => NewConquests = << >>
             /\ Len(NewConquests) <= 1
             /\ OwnerChanged = {list_planets[NewConquests[j].planet_id] :
                                  j \in 1 .. Len(NewConquests)}
        ELSE /\ OwnerChanged = {}
             /\ turn'.conquest_events \in {turn.conquest_events, << >>} ]_vars

\* C11 witness: a turn is yielded with a conquest event and with a war that
\* conquered nothing
ConquestEventYielded ==
    /\ pc.op = "yield" /\ pc.kind = "turn"
    /\ turn.conquest_events # << >>
    /\ Cardinality({i \in 1 .. Len(turn.interactions) : turn.interactions[i].type = "war"})
         > Len(turn.conquest_events)


Party(r, c) == r.civ1 = c \/ r.civ2 = c

\* C12: a civilization that is not alive when an iteration of interact_civs
\* starts is left as it is by that iteration and is in none of the records
\* the iteration writes; a civilization that an iteration marks not-alive is
\* in no record the iteration writes after the war that eliminated it.
DeadStayOut ==
    [][ (pc.op = "interact_civs" /\ pc'.op = "interact_civs") =>
           \A c \in CivObjs :
              /\ ~civ[c].alive =>
                    /\ civ'[c] = civ[c]
                    /\ \A i \in 1 .. Len(NewInteractions) : ~Party(NewInteractions[i], c)
              /\ (civ[c].alive /\ ~civ'[c].alive) =>
                    \A i \in 1 .. Len(NewInteractions) : \A j \in 1 .. (i - 1) :
                       (NewInteractions[j].type = "war" /\ Party(NewInteractions[j], c))
                          => ~Party(NewInteractions[i], c) ]_vars

\* the records of the turn between the civs a and b
PairRecords(a, b) ==
    {i \in 1 .. Len(turn.interactions) :
        {turn.interactions[i].civ1, turn.interactions[i].civ2} = {a, b}}
InRange(a, b) == can_interact(World, a, b) /\ can_interact(World, b, a)

\* C13: when run_simulation yields a turn, there is at most one interaction
\* record for every unordered pair of civilizations; a pair of alive
\* civilizations that are in range of each other in both directions has
\* exactly one, and a pair of alive civilizations of which one is out of the
\* other's range has none.
OneRecordPerPair ==
    (pc.op = "yield" /\ pc.kind = "turn") =>
       \A a \in CivObjs : \A b \in CivObjs \ {a} :
          /\ Cardinality(PairRecords(a, b)) <= 1
          /\ (civ[a].alive /\ civ[b].alive) =>
                Cardinality(PairRecords(a, b)) = (IF InRange(a, b) THEN 1 ELSE 0)

\* the civ of a pair of desperate civs that attacks: the higher military, then
\* the lower friendliness, then the earlier id
DesperateAttacker(a, b) ==
    IF civ[a].military # civ[b].military
    THEN (IF civ[a].military > civ[b].military THEN a ELSE b)
    ELSE IF civ[a].friendliness # civ[b].friendliness
    THEN (IF civ[a].friendliness < civ[b].friendliness THEN a ELSE b)
    ELSE (IF civ[a].civ_id < civ[b].civ_id THEN a ELSE b)

\* C14: when run_simulation yields a turn, every interaction record between
\* a desperate and a non-desperate civilization is a war whose attacker is the
\* desperate one, and every record between two desperate civilizations is a
\* war whose attacker is the one with the higher military (then the lower
\* friendliness, then the earlier id).
DesperationFirst ==
    (pc.op = "yield" /\ pc.kind = "turn") =>
       \A i \in 1 .. Len(turn.interactions) :
          LET r == turn.interactions[i]
              d1 == civ[r.civ1].is_desparate
              d2 == civ[r.civ2].is_desparate
          IN  /\ (d1 # d2) => (r.type = "war" /\ d1)
              /\ (d1 /\ d2) => (r.type = "war" /\ r.civ1 = DesperateAttacker(r.civ1, r.civ2))

CultureWon == \E c \in CivObjs : civ[c].has_won_culture_victory

\* C16: has_won_culture_victory is never reset; from the update that makes it
\* true for some civilization on, run_simulation only repeats the yield of
\* the culture victory message and returns with end_type "Culture": the turn
\* counter stays, no interaction is run and no civilization is touched.
CultureVictoryEnds ==
    [][ /\ \A c \in CivObjs : civ[c].has_won_culture_victory => civ'[c].has_won_culture_victory
        /\ CultureWon' =>
              /\ pc'.op \in {"yield", "returned"}
              /\ pc'.op = "yield" => pc'.kind = "Culture"
              /\ pc'.op = "returned" => end_type' = "Culture"
              /\ t' = t /\ turn' = turn /\ planet' = planet /\ list_civs' = list_civs
              /\ CultureWon => civ' = civ ]_vars

\* C16 witness: run_simulation has returned with end_type "Culture" before
\* max_turns, after three yields of the message
CultureVictoryReturned ==
    /\ pc.op = "returned" /\ end_type = "Culture" /\ CultureWon /\ t < max_turns

Alive == {c \in CivObjs : civ[c].alive}

\* C17: when run_simulation has returned and exactly one civilization is
\* alive, end_type is "Military" and the model's winner_id is the id of the
\* surviving civilization.
SoleSurvivorWins ==
    (pc.op = "returned" /\ Cardinality(Alive) = 1) =>
       /\ end_type = "Military"
       /\ \A c \in Alive : winner_id = civ[c].civ_id

\* C18: when run_simulation has returned without a culture victory and
\* without a military victory, max_turns turns included, end_type is
\* "Stalemate".
TurnLimitIsStalemate ==
    (pc.op = "returned" /\ end_type \notin {"Culture", "Military"}) => end_type = "Stalemate"

\* the run is over: returned, left by an exception, or not followed further
Finished == pc.op \in {"returned", "raised", "nan"}
Snapshots == SelectSeq(yielded, LAMBDA y : y # MessageYield)

-----------------------------------------------------------------------------
(* Properties of interact_civs2 *)

PlanetsOf(c) == {p \in PlanetObjs : planet[p].civ = c}
DistSquared(p, q) == RangeSquared(World, planet[p].id, planet[q].id)

\* C15: in every war of interact_civs2 the planet passed to civs_war, whose
\* position the record carries, is owned by the defender when the war starts,
\* and no planet of the defender is closer to a planet of the attacker.
WarTargetIsDefenders ==
    [][ (pc.op = "interact_civs2" /\ pc'.op = "interact_civs2") =>
           \A i \in 1 .. Len(NewInteractions) :
              NewInteractions[i].type = "war" =>
                 LET r == NewInteractions[i]
                     p == PlanetAt(r.defender_target_planet_initial_pos)
                 IN  /\ planet[p].civ = r.defender
                     /\ \A q \in PlanetsOf(r.defender) : \A x \in PlanetsOf(r.attacker) :
                           \E y \in PlanetsOf(r.attacker) :
                              DistSquared(y, p) <= DistSquared(x, q) ]_vars

\* the pair of the iteration of interact_civs2 that is about to run
NextPair == civ_pairs(turn.active_civs)[turn.next]
PairIteration ==
    /\ pc.op = "interact_civs2" /\ pc'.op = "interact_civs2"
    /\ turn.next <= Len(civ_pairs(turn.active_civs))
    /\ turn'.next = turn.next + 1
PairProcessed ==
    /\ civ[NextPair[1]].alive /\ civ[NextPair[2]].alive
    /\ can_interact(World, NextPair[1], NextPair[2])
    /\ can_interact(World, NextPair[2], NextPair[1])
PairRecord == turn'.interactions[Len(turn'.interactions)]
Cooperated(C, other_id) ==
    [C EXCEPT !.tech = @ + COOPERATION_BOOST,
              !.culture = @ + COOPERATION_BOOST,
              !.relations[other_id] = "Peace"]

\* C23: in interact_civs2 a pair that is alive and in range gets one record;
\* the record is a cooperation exactly when neither civilization is
\* desperate, the war-score rule has not made a war of it and both have
\* friendliness 1; a cooperation adds COOPERATION_BOOST to the tech and to
\* the culture of both, sets their relation to "Peace" in both directions and
\* changes nothing else of any civilization or planet.
CooperationRule ==
    [][ (PairIteration /\ PairProcessed) =>
          /\ Len(turn'.interactions) = Len(turn.interactions) + 1
          /\ PairRecord.civ1 = NextPair[1] /\ PairRecord.civ2 = NextPair[2]
          /\ (PairRecord.type = "cooperation") <=>
                (/\ ~civ[NextPair[1]].is_desparate /\ ~civ[NextPair[2]].is_desparate
                 /\ turn'.rule \notin {"1. Desperation War", "2. WarScore-based War"}
                 /\ civ[NextPair[1]].friendliness = ONE
                 /\ civ[NextPair[2]].friendliness = ONE)
          /\ PairRecord.type = "cooperation" =>
                /\ planet' = planet /\ list_civs' = list_civs
                /\ \A c \in CivObjs :
                      civ'[c] = IF c = NextPair[1]
                                THEN Cooperated(civ[c], civ[NextPair[2]].civ_id)
                                ELSE IF c = NextPair[2]
                                THEN Cooperated(civ[c], civ[NextPair[1]].civ_id)
                                ELSE civ[c] ]_vars

\* C23 witness: the last pair of interact_civs2 has cooperated and both
\* civilizations have tech and culture from it
PairCooperated ==
    /\ pc.op = "interact_civs2"
    /\ Len(turn.interactions) >= 1
    /\ LET r == turn.interactions[Len(turn.interactions)]
       IN  /\ r.type = "cooperation"
           /\ civ[r.civ1].relations[civ[r.civ2].civ_id] = "Peace"
           /\ civ[r.civ1].friendliness = ONE /\ civ[r.civ2].friendliness = ONE

\* C24: in interact_civs2, when neither the desperation rule nor the
\* war-score rule nor the cooperation rule handles a pair, the pair goes to
\* war if one of the two has friendliness below
\* AGGRESSION_FRIENDLINESS_THRESHOLD, the attacker being the one with the
\* lower friendliness and, on equal friendliness, the first of the pair; a
\* pair with both at or above the threshold trades.
AggressionRule ==
    [][ (/\ PairIteration /\ PairProcessed
         /\ turn'.rule \notin {"1. Desperation War", "2. WarScore-based War", "3. Cooperation"}) =>
          LET f1 == civ[NextPair[1]].friendliness
              f2 == civ[NextPair[2]].friendliness
          IN  IF f1 < AGGRESSION_FRIENDLINESS_THRESHOLD \/ f2 < AGGRESSION_FRIENDLINESS_THRESHOLD
              THEN /\ PairRecord.type = "war"
                   /\ PairRecord.attacker = IF f1 <= f2 THEN NextPair[1] ELSE NextPair[2]
                   /\ PairRecord.defender = IF f1 <= f2 THEN NextPair[2] ELSE NextPair[1]
                   /\ civ'[PairRecord.attacker].war_initiations_this_turn =
                         civ[PairRecord.attacker].war_initiations_this_turn + 1
              ELSE /\ PairRecord.type = "trade"
                   /\ PairRecord.civ1 = NextPair[1] /\ PairRecord.civ2 = NextPair[2] ]_vars

\* C24 witness: rule 4 has made a war between two civilizations of equal
\* friendliness, the first of the pair attacking
AggressionWarOnTie ==
    /\ pc.op = "interact_civs2"
    /\ turn.rule = "4. Low-Friendliness Aggression War"
    /\ LET r == turn.interactions[Len(turn.interactions)]
       IN  /\ r.type = "war" /\ r.attacker = r.civ1
           /\ civ[r.civ1].friendliness = civ[r.civ2].friendliness
           /\ civ[r.civ1].alive /\ civ[r.civ2].alive

-----------------------------------------------------------------------------
(* Properties of change_relations *)

\* C20: a call of change_relations with a tag outside "Neutral", "Peace",
\* "War" raises and leaves the relation tags of every civilization as they
\* were; a call with one of the three tags does not raise and sets the tag
\* in both directions; and in every state the tag of A toward B is the tag
\* of B toward A.
RelationsContract ==
    /\ \A a \in CivObjs : \A b \in CivObjs :
          civ[a].relations[civ[b].civ_id] = civ[b].relations[civ[a].civ_id]
    /\ pc.op = "change_relations" =>
          IF pc.new_relation \in {"Neutral", "Peace", "War"}
          THEN /\ ~pc.raised
               /\ civ[pc.c1].relations[civ[pc.c2].civ_id] = pc.new_relation
               /\ civ[pc.c2].relations[civ[pc.c1].civ_id] = pc.new_relation
          ELSE /\ pc.raised
               /\ \A c \in CivObjs : civ[c].relations = pc.before[c]

\* C20 witness: a call with an invalid tag has raised after an earlier call
\* had set the tag of the two civilizations to "War"
InvalidTagRaised ==
    /\ pc.op = "change_relations" /\ pc.raised /\ pc.c1 # pc.c2
    /\ civ[pc.c1].relations[civ[pc.c2].civ_id] = "War"
    /\ civ[pc.c2].relations[civ[pc.c1].civ_id] = "War"

-----------------------------------------------------------------------------
(* Model.__init__ called with any num_planets, several times in one         *)
(* process: Civ.id_iter, Planet.id_iter and the default value of the        *)
(* friendliness parameter live as long as the process.                      *)

MAX_PLANETS == 30
MIN_GRID_HEIGHT == 5
MIN_GRID_WIDTH == 5
MAX_GRID_HEIGHT == 50
MAX_GRID_WIDTH == 50
RESOURCE_MIN == 10000   \* 100
RESOURCE_MAX == 50000   \* 500
POPCAP_MIN == 100000    \* 1000

\* Python's a % n for a >= 0 and n # 0: the result has the sign of n
PyMod(a, n) ==
    IF n > 0 THEN a % n
    ELSE IF a % (0 - n) = 0 THEN 0 ELSE (a % (0 - n)) + n

\* Planet.__init__ with the id computed by Python's %
NewPlanetPy(num_planets, id_iter, pos_x, pos_y, resources, population_cap) ==
    [NewPlanet(1, 0, pos_x, pos_y, resources, population_cap) EXCEPT
        !.id = PyMod(id_iter, num_planets)]

\* the civs as they would be if the default of friendliness were drawn at
\* every construction of a Civ
ScenarioCivs_drawn_per_civ(self_num_planets, num_planets, scenario, civ_id_iter, dflt) ==
    [i \in 0 .. (num_planets - 1) |->
       NewCiv(self_num_planets, civ_id_iter + i, 0, 0, 0,
              ScenarioFriendliness(scenario, (dflt + 37 * i) % ONE)[IF i = 0 THEN 0 ELSE 1],
              ScenarioResources(scenario)[IF i = 0 THEN 0 ELSE 1])]

\* the list comprehension of Model.__init__: range(num_planets) Civ objects,
\* each constructed with self.num_planets and the arguments of the scenario
ScenarioCivs(self_num_planets, num_planets, scenario, civ_id_iter, dflt) ==
    [i \in 0 .. (num_planets - 1) |->
       NewCiv(self_num_planets, civ_id_iter + i, 0, 0, 0,
              ScenarioFriendliness(scenario, dflt)[IF i = 0 THEN 0 ELSE 1],
              ScenarioResources(scenario)[IF i = 0 THEN 0 ELSE 1])]

\* sample(coords[isAvailable].tolist(), 1)[0] for planet i: the available
\* cells are in row-major order, and draw.cell picks the first or the last
SampleCoord(height, width, i, draw) ==
    LET k == IF draw.cell = "first" THEN i ELSE height * width - 1 - i
    IN  <<k \div width, k % width>>

\* Model.assign_planets from planet i on.  M = [civ, planet, list_civs,
\* id_iters, raised]: raised names the exception that left the constructor.
RECURSIVE AssignPlanetsFrom(_, _, _, _, _, _, _)
AssignPlanetsFrom(M, i, self_num_planets, num, height, width, draw) ==
    IF i >= self_num_planets THEN M
    ELSE IF i >= height * width THEN [M EXCEPT !.raised = "ValueError"]
    ELSE IF num = 0 THEN [M EXCEPT !.raised = "ZeroDivisionError"]
    ELSE
    LET coord == SampleCoord(height, width, i, draw)
        P == NewPlanetPy(num, M.id_iters.Planet, coord[1], coord[2],
                         Stock(draw.resources, draw.resources, draw.resources), POPCAP_MIN)
        M1 == [M EXCEPT !.planet = [p \in 0 .. i |-> IF p < i THEN M.planet[p] ELSE P],
                        !.id_iters.Planet = @ + 1]
    IN  IF i >= Len(M1.list_civs) THEN [M1 EXCEPT !.raised = "IndexError"]
        ELSE LET W == assign_civ([civ |-> M1.civ, planet |-> M1.planet,
                                  list_civs |-> M1.list_civs], i, M1.list_civs[i + 1])
             IN  AssignPlanetsFrom([M1 EXCEPT !.civ = W.civ, !.planet = W.planet],
                                   i + 1, self_num_planets, num, height, width, draw)

\* Model.__init__(num_planets, grid_height, grid_width, scenario)
Model__init__(num_planets, grid_height, grid_width, scenario, iters, dflt, draw) ==
    LET self_num_planets == Max2(MIN_PLANETS, Min2(num_planets, MAX_PLANETS))
        height == Max2(MIN_GRID_HEIGHT, Min2(grid_height, MAX_GRID_HEIGHT))
        width == Max2(MIN_GRID_WIDTH, Min2(grid_width, MAX_GRID_WIDTH))
        count == Max2(num_planets, 0)
        civs == ScenarioCivs(self_num_planets, count, scenario, iters.Civ, dflt)
        M0 == [civ |-> civs,
               planet |-> << >>,
               list_civs |-> [i \in 1 .. count |-> i - 1],
               id_iters |-> [iters EXCEPT !.Civ = @ + count],
               raised |-> ""]
    IN  AssignPlanetsFrom(M0, 0, self_num_planets, num_planets, height, width, draw)

MaxModels == 2
NumPlanetsArgs == {0, 2, 3, 4, 31}
\* <<num_planets, grid_height, grid_width>>: the default grid, and a small one
ModelArgs == {<<n, 30, 30>> : n \in NumPlanetsArgs} \cup {<<31, 2, 2>>}
ModelScenarios == {"", "juggernaut"}
DefaultDraws == {0, 31, 99}            \* random() at the def of Civ.__init__
PlanetDraws == {[cell |-> "first", resources |-> RESOURCE_MIN],
                [cell |-> "last", resources |-> RESOURCE_MAX]}

InitProcess ==
    /\ civ = << >> /\ planet = << >> /\ list_civs = << >>
    /\ pc = [op |-> "import"]
    /\ t = 0
    /\ end_type = ""
    /\ turn = << >>
    /\ calls = 0
    /\ max_turns = MAX_TURNS_SIM
    /\ winner_id = NoneObj
    /\ yielded = << >>
    /\ id_iters = [Civ |-> 0, Planet |-> 0]
    /\ friendliness_default \in DefaultDraws

\* sim = Model(num_planets, grid_height, grid_width, scenario); the variables
\* civ, planet and list_civs show the objects of this Model, also when the
\* constructor was left by an exception
NewModelCall ==
    \E args \in ModelArgs, scenario \in ModelScenarios, draw \in PlanetDraws :
       \E num_planets \in {args[1]} :
       \E M \in {Model__init__(num_planets, args[2], args[3], scenario,
                                id_iters, friendliness_default, draw)} :
          /\ calls < MaxModels
          /\ calls' = calls + 1
          /\ civ' = M.civ /\ planet' = M.planet /\ list_civs' = M.list_civs
          /\ id_iters' = M.id_iters
          /\ pc' = [op |-> "Model", num_planets |-> num_planets, scenario |-> scenario,
                    raised |-> M.raised]
          /\ UNCHANGED <<t, end_type, turn, max_turns, winner_id, yielded, friendliness_default>>

\* init.py: Civ.id_iter = 0; Planet.id_iter = 0
ResetIdIter ==
    /\ pc.op = "Model"
    /\ id_iters # [Civ |-> 0, Planet |-> 0]
    /\ id_iters' = [Civ |-> 0, Planet |-> 0]
    /\ UNCHANGED <<civ, planet, list_civs, pc, t, end_type, turn, calls, max_turns, winner_id,
                   yielded, friendliness_default>>

NextProcess ==
    \/ NewModelCall
    \/ ResetIdIter

SpecProcess == InitProcess /\ [][NextProcess]_vars

-----------------------------------------------------------------------------
(* Properties of Model.__init__ *)

CivIndexes == DOMAIN civ
PlanetIndexes == DOMAIN planet
Clamped(num_planets) == Max2(MIN_PLANETS, Min2(num_planets, MAX_PLANETS))
OwnedBy(c) == {p \in PlanetIndexes : planet[p].civ = c}

\* C21: whatever num_planets is requested, the constructor returns without an
\* exception with clamp(num_planets, MIN_PLANETS, MAX_PLANETS) planets and as
\* many civilizations, the civilization ids are pairwise distinct and each
\* civilization owns exactly one planet.
ConstructionClamps ==
    pc.op = "Model" =>
       /\ pc.raised = ""
       /\ Cardinality(PlanetIndexes) = Clamped(pc.num_planets)
       /\ Cardinality(CivIndexes) = Clamped(pc.num_planets)
       /\ Len(list_civs) = Clamped(pc.num_planets)
       /\ \A a \in CivIndexes : \A b \in CivIndexes :
             civ[a].civ_id = civ[b].civ_id => a = b
       /\ \A c \in CivIndexes :
             civ[c].num_planets = 1 /\ Cardinality(OwnedBy(c)) = 1

-----------------------------------------------------------------------------
(* Properties of the friendliness attribute *)

-----------------------------------------------------------------------------
(* Properties of the relation tags in interact_civs                         *)

\* the actor of the iteration of interact_civs that is taken in this step
IterationActor == turn.active_civs[turn.next]
ActorIteration ==
    /\ pc.op = "interact_civs" /\ pc'.op = "interact_civs"
    /\ turn.next <= Len(turn.active_civs)
    /\ turn'.next = turn.next + 1
RelationBefore(a, b) == civ[a].relations[civ[b].civ_id]
CooperatedInIteration(a, b) ==
    \E j \in 1 .. Len(NewInteractions) :
        /\ NewInteractions[j].type = "cooperation"
        /\ {NewInteractions[j].civ1, NewInteractions[j].civ2} = {a, b}
\* x has given resources to the actor in the trade clearing of this iteration
GaveInClearing(x) == turn'.given[x] # turn.given[x]
\* the tag between the actor and x when the actor's clearing is executed: a
\* non-desperate actor has cooperated before it, a desperate actor's war can
\* only have set the tag to "War"
TagAtClearing(a, x) ==
    IF ~civ[a].is_desparate /\ CooperatedInIteration(a, x) THEN "Peace"
    ELSE RelationBefore(a, x)
\* the tag between a non-desperate actor and the defender when the actor's war
\* is declared, after the cooperation and the clearing
TagAtWar(a, x) ==
    IF CooperatedInIteration(a, x) THEN "Peace" ELSE RelationBefore(a, x)

\* C25: the relation tags constrain the interactions: no trade clearing is
\* executed between two civilizations whose relation is "War", and a
\* civilization declares war on a civilization with which its relation is
\* "Peace" only if the attacker is desperate.
RelationsConstrainInteractions ==
    [][ ActorIteration =>
          /\ \A x \in CivObjs \ {IterationActor} :
                GaveInClearing(x) => TagAtClearing(IterationActor, x) # "War"
          /\ \A j \in 1 .. Len(NewInteractions) :
                NewInteractions[j].type = "war" =>
                   \/ civ[NewInteractions[j].civ1].is_desparate
                   \/ TagAtWar(NewInteractions[j].civ1, NewInteractions[j].civ2) # "Peace"
      ]_vars


-----------------------------------------------------------------------------
(* Properties of war_initiations_this_turn                                  *)

\* the war records of the current turn in which c is the attacker
WarsDeclaredBy(c) ==
    {i \in 1 .. Len(turn.interactions) :
        turn.interactions[i].type = "war" /\ turn.interactions[i].civ1 = c}
TurnYielded == pc.op = "yield" /\ pc.kind = "turn"

\* C26: at every yielded turn snapshot, war_initiations_this_turn of every
\* alive civilization is the number of war records of that turn in which it is
\* the attacker: the counter is reset before the turn's interactions and goes
\* up by one with every war the civilization declares.
WarInitiationsCounted ==
    TurnYielded =>
       \A c \in CivObjs :
          civ[c].alive => civ[c].war_initiations_this_turn = Cardinality(WarsDeclaredBy(c))

\* a turn is yielded in which an alive civilization has declared one war, and
\* an alive civilization that has won a war has declared none this turn
WarCountedAtYield ==
    /\ TurnYielded
    /\ \E c \in CivObjs : civ[c].alive /\ civ[c].war_initiations_this_turn = 1
    /\ \E c \in CivObjs :
          /\ civ[c].alive /\ civ[c].victories >= 1
          /\ civ[c].war_initiations_this_turn = 0

-----------------------------------------------------------------------------
(* Properties of the eliminations in run_simulation                         *)

OwnedPlanets == {p \in PlanetObjs : planet[p].civ # NoneObj}
HeldPlanets == SumDom([c \in CivObjs |-> civ[c].num_planets], CivObjs)
\* c is the defender of a war of this iteration that the attacker has won: the
\* attacker is alive afterwards and the targeted planet went from c to it
EliminatedByConquest(c) ==
    /\ ActorIteration
    /\ \E j \in 1 .. Len(NewInteractions) :
          /\ NewInteractions[j].type = "war"
          /\ NewInteractions[j].civ2 = c
          /\ civ'[NewInteractions[j].civ1].alive
          /\ civ'[NewInteractions[j].civ1].victories > civ[NewInteractions[j].civ1].victories
          /\ \E q \in PlanetObjs :
                /\ <<planet[q].pos_x, planet[q].pos_y>>
                      = NewInteractions[j].defender_target_planet_initial_pos
                /\ planet[q].civ = c
                /\ planet'[q].civ = NewInteractions[j].civ1

\* C27: the number of alive civilizations never drops to zero: a civilization
\* is eliminated only in a civs_war call won by an attacker that stays alive
\* and gains the conquered planet, neither "all civilizations eliminated"
\* message of run_simulation is ever yielded, and the number of owned planets
\* stays the same.
NeverAllEliminated ==
    [][ /\ Alive' # {}
        /\ \A c \in CivObjs : civ[c].alive /\ ~civ'[c].alive => EliminatedByConquest(c)
        /\ pc'.op = "yield" => pc'.kind # "Stalemate"
        /\ OwnedPlanets' = OwnedPlanets
        /\ HeldPlanets' = HeldPlanets
      ]_vars

\* a civilization has been eliminated and its conqueror holds two planets
ConqueredAndEliminated ==
    /\ pc.op = "interact_civs"
    /\ \E c \in CivObjs : ~civ[c].alive /\ civ[c].num_planets = 0
    /\ \E c \in CivObjs : civ[c].alive /\ civ[c].num_planets = 2
    /\ Cardinality(OwnedPlanets) = MIN_PLANETS

-----------------------------------------------------------------------------
(* Properties of end_type                                                   *)

TerminalYield == pc.op = "yield" /\ pc.kind # "turn"

\* C28: end_type is written at most once in a run, and only when the
\* generator is resumed after the yield of the terminal message: at every
\* yield of run_simulation, the yield of a terminal message included,
\* end_type is still the empty string.
EndTypeAfterLastYield ==
    [][ /\ pc'.op = "yield" => end_type' = ""
        /\ end_type' # end_type =>
              /\ end_type = ""
              /\ TerminalYield
              /\ pc'.op = "returned"
              /\ end_type' = pc.kind
      ]_vars

\* the consumer has resumed the generator after a military victory's message
\* and the generator has returned with end_type written
EndTypeWritten ==
    /\ pc.op = "returned"
    /\ end_type = "Military"
    /\ yielded # << >> /\ yielded[Len(yielded)] = MessageYield

-----------------------------------------------------------------------------
(* Properties of the default friendliness                                   *)

\* the civs of the Model just constructed that were constructed without a
\* friendliness argument
DefaultedCivs ==
    {c \in DOMAIN civ : pc.scenario = "" \/ (pc.scenario = "juggernaut" /\ c # 0)}

\* C29: every civilization constructed without an explicit friendliness
\* argument gets the same initial friendliness: the random default is drawn
\* once for the whole process, so all civilizations of the default scenario,
\* and all civilizations but civ 0 of the "juggernaut" scenario, start with
\* the same friendliness, in every Model of the process.
DefaultFriendlinessShared ==
    [][ /\ friendliness_default' = friendliness_default
        /\ pc'.op = "Model" =>
              /\ \A c \in DefaultedCivs' : civ'[c].friendliness = friendliness_default
              /\ (pc'.scenario = "juggernaut" /\ 0 \in DOMAIN civ') => civ'[0].friendliness = 0
      ]_vars

\* the second Model of the process is a juggernaut Model of four civs, and the
\* default drawn for the process is not the juggernaut's 0
JuggernautWithDefault ==
    /\ pc.op = "Model" /\ pc.scenario = "juggernaut" /\ pc.raised = ""
    /\ calls = 2
    /\ friendliness_default > 0
    /\ Cardinality(DefaultedCivs) = 3

-----------------------------------------------------------------------------
(* Properties of the ids of civs and planets                                *)

\* C30: in every Model, whatever Models were constructed before it in the
\* process, the civilization with id i is the element at index i of civ_ids
\* and the planet with id j is the element at index j of list_planets, so
\* that the lookups by id address the object that carries the id.
IdsAreIndexes ==
    (pc.op = "Model" /\ pc.raised = "") =>
       /\ \A i \in CivIndexes : civ[i].civ_id = i
       /\ \A j \in PlanetIndexes : planet[j].id = j

=============================================================================
